---- MODULE Spec2Model ----
(***************************************************************************)
(* Discovery / adaptive-resolution engine of One-Click-AI:                 *)
(*   - registry/store.py + registry/main.py : NandaIndexStore (TTL store)  *)
(*   - nanda-index/registry.py              : lean index + matcher         *)
(*   - resolver/main.py                     : adaptive resolver            *)
(* Each service is a state machine of its own (SpecStore, SpecIndex,       *)
(* SpecIndexConc for the index handlers interleaved at their awaits,       *)
(* SpecMatcher for the matcher over a wider range of requests,             *)
(* SpecResolver, SpecRegistry for the registry endpoints that call out);   *)
(* the variables of the other services stay at their initial value.        *)
(* SpecResolverCache runs the resolver in front of the registry store.     *)
(* SpecRegisterInput covers the validation of POST /register, SpecCrypto   *)
(* the signing of shared/nanda_crypto.py, SpecNegotiate POST /negotiate,   *)
(* SpecDurable the lean index with its MongoDB collection absent,          *)
(* connected or failing on writes.                                         *)
(***************************************************************************)
EXTENDS Integers, Sequences, FiniteSets, TLC

\* ------------------------------------------------------------------------
\* Bounds of the model
\* ------------------------------------------------------------------------
\* time.time() runs over 0..MaxTime (seconds)
MaxTime == 3
\* ttl values offered to register: 1..MaxTTL
MaxTTL == 2

\* Python's None where an object is expected
None == [none |-> TRUE]
\* Python's None in an Optional[str] field
NoStr == "None"

\* ------------------------------------------------------------------------
\* Python dict: insertion-ordered sequence of <<key, value>> entries
\* ------------------------------------------------------------------------
DictKeys(d) == {d[i][1] : i \in DOMAIN d}

DictHas(d, k) == \E i \in DOMAIN d : d[i][1] = k

\* d.get(k, default)
DictGetOr(d, k, default) ==
    IF DictHas(d, k) THEN d[CHOOSE i \in DOMAIN d : d[i][1] = k][2] ELSE default

\* d.get(k) -> value or None
DictGet(d, k) == DictGetOr(d, k, None)

\* d[k] = v : an existing key keeps its position, a new key is appended
DictSet(d, k, v) ==
    IF DictHas(d, k)
    THEN [i \in DOMAIN d |-> IF d[i][1] = k THEN <<k, v>> ELSE d[i]]
    ELSE Append(d, <<k, v>>)

\* d.pop(k, None) / del d[k] : the remaining entries keep their order
DictPop(d, k) == SelectSeq(d, LAMBDA e : e[1] # k)

\* list(d.values())
DictValues(d) == [i \in DOMAIN d |-> d[i][2]]

\* Python truthiness of an Optional[str]
Truthy(s) == s # NoStr /\ s # ""

VARIABLES
    now,          \* time.time(), shared wall clock
    entries,      \* NandaIndexStore._entries    : agent_id -> CachedEntry
    name_index,   \* NandaIndexStore._name_index : agent_name -> agent_id
    reg_input,    \* history: payload of the latest register of each id (None after remove)
    store_last,   \* history: the last store request and its response
    USE_EMBEDDINGS, \* nanda-index/registry.py USE_EMBEDDINGS (set at import)
    registry,     \* nanda-index/registry.py _registry   : agent_id -> agent dict
    embeddings,   \* nanda-index/registry.py _embeddings : "{agent_id}::{skill_id}" -> vector
    handlers,     \* in-flight async handlers of the lean index, suspended at an await
    index_last,   \* history: the last lean-index request that completed and its response
    reg_writer,   \* history: the handler whose register wrote _registry[agent_id] last
    refreshed,    \* history: the skills whose embedding that register has stored
    mongo_col,    \* nanda-index/registry.py _mongo_col : None, or the documents it holds
    deployment_records, \* resolver/main.py deployment_records : agent_id -> record
    zone_referrals,     \* resolver/main.py zone_referrals : zone -> authoritative NS URL
    addr_cache,         \* resolver/main.py addr_cache : agent_id -> (addr, expires_at)
    resolver_last       \* history: the last resolver request, what it fetched, its response

storeVars == <<entries, name_index, reg_input, store_last>>

indexVars == <<USE_EMBEDDINGS, registry, embeddings, handlers, index_last,
               reg_writer, refreshed, mongo_col>>

resolverVars == <<deployment_records, zone_referrals, addr_cache, resolver_last>>

vars == <<now, entries, name_index, reg_input, store_last,
          USE_EMBEDDINGS, registry, embeddings, handlers, index_last,
          reg_writer, refreshed, mongo_col,
          deployment_records, zone_referrals, addr_cache, resolver_last>>

\* ------------------------------------------------------------------------
\* registry/store.py, registry/main.py
\* ------------------------------------------------------------------------
Ids == {"a1", "a2"}
Names == {"n1", "n2"}
Urls == {"u1"}
TTLs == 1..MaxTTL

\* AgentAddr.signature default ""
NoSignature == [blake2b |-> None]

\* shared/agent_facts.py AgentAddr, as a client posts it to /register
AgentAddr ==
    [agent_id : Ids, agent_name : Names, primary_facts_url : Urls, ttl : TTLs,
     signature : {NoSignature}, registered_at : {None}]

\* datetime.isoformat() of a clock reading
IsoFormat(t) == [iso |-> t]

\* shared/nanda_crypto.py sign_document: keyed digest of the canonical
\* serialisation of the payload (collision-free in the model)
sign_document(payload) == [blake2b |-> payload]

\* model_dump(exclude={"signature"})
ExcludeSignature(addr) ==
    [f \in DOMAIN addr \ {"signature"} |-> addr[f]]

\* registry/main.py register_agent: sign, then stamp registered_at
StampAddr(addr, t) ==
    [addr EXCEPT !.signature = sign_document(ExcludeSignature(addr)),
                 !.registered_at = IsoFormat(t)]

\* store.py CachedEntry.__init__
CachedEntry(addr, t) ==
    [addr |-> addr, registered_at |-> t, expires_at |-> t + addr.ttl]

\* store.py CachedEntry.expired
expired(entry, t) == t > entry.expires_at

\* store.py NandaIndexStore.resolve_by_id
resolve_by_id(es, agent_id, t) ==
    LET entry == DictGet(es, agent_id)
    IN  IF entry # None /\ ~expired(entry, t) THEN entry.addr ELSE None

\* store.py NandaIndexStore.resolve_by_name
resolve_by_name(es, ni, agent_name, t) ==
    LET agent_id == DictGetOr(ni, agent_name, NoStr)
    IN  IF Truthy(agent_id) THEN resolve_by_id(es, agent_id, t) ELSE None

\* store.py NandaIndexStore.list_all
list_all(es, t) ==
    LET live == SelectSeq(DictValues(es), LAMBDA e : e.expires_at >= t)
    IN  [i \in DOMAIN live |-> live[i].addr]

\* store.py NandaIndexStore.count
count(es) == Len(es)

\* a register that adds a record instead of replacing the one of the same id
RegisterEntriesAppend(es, addr, t) ==
    Append(es, <<addr.agent_id, CachedEntry(addr, t)>>)

\* a register that keeps the expiry of the record it replaces
RegisterEntriesKeepExpiry(es, addr, t) ==
    DictSet(es, addr.agent_id,
            IF DictHas(es, addr.agent_id)
            THEN [CachedEntry(addr, t) EXCEPT
                     !.expires_at = DictGet(es, addr.agent_id).expires_at]
            ELSE CachedEntry(addr, t))

\* store.py NandaIndexStore.register: the new _entries
RegisterEntries(es, addr, t) == DictSet(es, addr.agent_id, CachedEntry(addr, t))

\* store.py NandaIndexStore.register: the new _name_index
RegisterNameIndex(ni, addr) == DictSet(ni, addr.agent_name, addr.agent_id)

\* store.py NandaIndexStore.remove: the new _name_index
RemoveNameIndex(es, ni, agent_id) ==
    LET entry == DictGet(es, agent_id)
    IN  IF entry # None THEN DictPop(ni, entry.addr.agent_name) ELSE ni

\* POST /register (registry/main.py register_agent + store.register)
StoreRegister(addr) ==
    LET stamped == StampAddr(addr, now)
    IN  /\ entries' = RegisterEntries(entries, stamped, now)
        /\ name_index' = RegisterNameIndex(name_index, stamped)
        /\ reg_input' = [reg_input EXCEPT ![addr.agent_id] = addr]
        /\ store_last' = [op |-> "register", arg |-> addr.agent_id,
                          result |-> stamped, count_before |-> count(entries),
                          had_before |-> DictHas(entries, addr.agent_id),
                          expired_before |->
                              /\ DictHas(entries, addr.agent_id)
                              /\ expired(DictGet(entries, addr.agent_id), now)]
        /\ UNCHANGED <<now, indexVars, resolverVars>>

\* GET /resolve/{agent_id}
StoreResolveById(agent_id) ==
    /\ store_last' = [op |-> "resolve_by_id", arg |-> agent_id,
                      result |-> resolve_by_id(entries, agent_id, now),
                      count_before |-> count(entries), had_before |-> FALSE]
    /\ UNCHANGED <<now, entries, name_index, reg_input, indexVars, resolverVars>>

\* GET /resolve/name/{agent_name}
StoreResolveByName(agent_name) ==
    /\ store_last' = [op |-> "resolve_by_name", arg |-> agent_name,
                      result |-> resolve_by_name(entries, name_index, agent_name, now),
                      count_before |-> count(entries), had_before |-> FALSE]
    /\ UNCHANGED <<now, entries, name_index, reg_input, indexVars, resolverVars>>

\* DELETE /agents/{agent_id} (store.remove; deregister_agent answers 404 when
\* it returns False)
StoreRemove(agent_id) ==
    /\ entries' = DictPop(entries, agent_id)
    /\ name_index' = RemoveNameIndex(entries, name_index, agent_id)
    /\ reg_input' = [reg_input EXCEPT ![agent_id] = None]
    /\ store_last' = [op |-> "remove", arg |-> agent_id,
                      result |-> DictHas(entries, agent_id),
                      status |-> IF DictHas(entries, agent_id) THEN 200 ELSE 404,
                      count_before |-> count(entries),
                      had_before |-> DictHas(entries, agent_id)]
    /\ UNCHANGED <<now, indexVars, resolverVars>>

\* the wall clock advances by one second
Tick ==
    /\ now < MaxTime
    /\ now' = now + 1

StoreTick ==
    /\ Tick
    /\ store_last' = [op |-> "tick", arg |-> "", result |-> None,
                      count_before |-> count(entries), had_before |-> FALSE]
    /\ UNCHANGED <<entries, name_index, reg_input, indexVars, resolverVars>>

StoreInit ==
    /\ entries = <<>>
    /\ name_index = <<>>
    /\ reg_input = [i \in Ids |-> None]
    /\ store_last = [op |-> "init", arg |-> "", result |-> None, count_before |-> 0,
                     had_before |-> FALSE]

NextStore ==
    \/ \E addr \in AgentAddr : StoreRegister(addr)
    \/ \E agent_id \in Ids : StoreResolveById(agent_id)
    \/ \E agent_name \in Names : StoreResolveByName(agent_name)
    \/ \E agent_id \in Ids : StoreRemove(agent_id)
    \/ StoreTick


\* ------------------------------------------------------------------------
\* Text: a Python str is a sequence of one-character strings
\* ------------------------------------------------------------------------
\* Python's None in an Optional[str] field holding text
NoText == <<"None">>

UpperOf == [c \in {"e", "u", "s"} |-> CASE c = "e" -> "E" [] c = "u" -> "U" [] c = "s" -> "S"]
LowerOf == [c \in {"E", "U", "S"} |-> CASE c = "E" -> "e" [] c = "U" -> "u" [] c = "S" -> "s"]

\* str.upper(), str.lower()
Upper(text) == [i \in DOMAIN text |-> IF text[i] \in DOMAIN UpperOf THEN UpperOf[text[i]] ELSE text[i]]
Lower(text) == [i \in DOMAIN text |-> IF text[i] \in DOMAIN LowerOf THEN LowerOf[text[i]] ELSE text[i]]

\* `sub in text`
Contains(sub, text) ==
    \E i \in 1..(Len(text) + 1) :
        /\ i + Len(sub) - 1 <= Len(text)
        /\ SubSeq(text, i, i + Len(sub) - 1) = sub

\* (value or "")
OrEmpty(text) == IF text = NoText THEN <<>> ELSE text

\* str.strip()
RECURSIVE LStrip(_)
LStrip(text) ==
    IF text # <<>> /\ Head(text) = " " THEN LStrip(Tail(text)) ELSE text

RECURSIVE RStrip(_)
RStrip(text) ==
    IF text # <<>> /\ text[Len(text)] = " "
    THEN RStrip(SubSeq(text, 1, Len(text) - 1)) ELSE text

Strip(text) == RStrip(LStrip(text))

\* str.split(sep) for a one-character sep: empty pieces are kept
RECURSIVE SplitOn(_, _)
SplitOn(text, sep) ==
    IF \A i \in DOMAIN text : text[i] # sep THEN <<text>>
    ELSE LET cut == CHOOSE i \in DOMAIN text :
                        text[i] = sep /\ \A j \in 1..(i - 1) : text[j] # sep
         IN  <<SubSeq(text, 1, cut - 1)>> \o SplitOn(SubSeq(text, cut + 1, Len(text)), sep)

\* str.split(): split on runs of whitespace, no empty pieces
SplitWords(text) == SelectSeq(SplitOn(text, " "), LAMBDA w : w # <<>>)

\* [f(x) for x in xs]
MapSeq(xs, f(_)) == [i \in DOMAIN xs |-> f(xs[i])]

\* x in xs, for a list xs
InList(x, xs) == \E i \in DOMAIN xs : xs[i] = x

\* ------------------------------------------------------------------------
\* nanda-index/registry.py: the lean index
\* ------------------------------------------------------------------------
\* latest clock reading of the lean index model
MaxIndexTime == 1

A1 == <<"a", "1">>
A2 == <<"a", "2">>
IndexIds == {A1, A2}
BRK == <<"b", "r", "k">>
ALU == <<"a", "l", "u">>
DISC == <<"d", "i", "s", "c">>
PADS == <<"p", "a", "d", "s">>
EU == <<"E", "U">>

\* what an agent may advertise: skills, skill_descriptions, region, ttl
Adverts ==
    { [skills |-> <<BRK>>, skill_descriptions |-> <<<<BRK, DISC>>>>,
       region |-> EU, ttl |-> 1],
      [skills |-> <<BRK>>, skill_descriptions |-> <<<<BRK, PADS>>>>,
       region |-> EU, ttl |-> MaxTTL],
      [skills |-> <<ALU>>, skill_descriptions |-> <<>>,
       region |-> NoText, ttl |-> 1] }

\* RegisterRequest: the body of POST /register
RegisterRequest ==
    { [agent_id |-> id, agent_name |-> <<"s">> \o id, facts_url |-> <<"u">> \o id,
       skills |-> ad.skills, skill_descriptions |-> ad.skill_descriptions,
       region |-> ad.region, ttl |-> ad.ttl, signature |-> NoText] :
         id \in IndexIds, ad \in Adverts }

\* _agent_to_dict(AgentAddr(..., registered_at=now)) plus skill_descriptions when given
AgentDict(body, t) ==
    LET d == [agent_id |-> body.agent_id, agent_name |-> body.agent_name,
              facts_url |-> body.facts_url, skills |-> body.skills,
              region |-> body.region, ttl |-> body.ttl,
              registered_at |-> IsoFormat(t), signature |-> body.signature]
    IN  IF body.skill_descriptions # <<>>
        THEN d @@ [skill_descriptions |-> body.skill_descriptions]
        ELSE d

\* agent_dict.get("skill_descriptions", {})
SkillDescriptions(agent_dict) ==
    IF "skill_descriptions" \in DOMAIN agent_dict THEN agent_dict.skill_descriptions ELSE <<>>

\* f"{agent_id}::{skill_id}"
EmbeddingKey(agent_id, skill_id) == agent_id \o <<":", ":">> \o skill_id

\* embedding_key.split("::", 1)
SplitKey(key) ==
    LET cut == CHOOSE i \in 1..Len(key) :
                  /\ i < Len(key) /\ key[i] = ":" /\ key[i + 1] = ":"
                  /\ \A j \in 1..(i - 1) : ~(key[j] = ":" /\ key[j + 1] = ":")
    IN  <<SubSeq(key, 1, cut - 1), SubSeq(key, cut + 2, Len(key))>>

\* the embedding provider (text-embedding-3-small), a fixed map text -> vector
EmbeddingOf(text) ==
    CASE Contains(DISC, text) -> <<4, 3>>
      [] Contains(PADS, text) -> <<3, 4>>
      [] Contains(BRK, text)  -> <<1, 0>>
      [] Contains(ALU, text)  -> <<0, 1>>
      [] OTHER                -> <<0, 0>>

\* f"{skill_id} {description}"
TextToEmbed(skill_id, description) == skill_id \o <<" ">> \o description

\* register_agent: _registry[agent.agent_id] = agent_dict
RegistryUpsert(reg, body, t) == DictSet(reg, body.agent_id, AgentDict(body, t))

\* register_agent, one turn of the embedding loop: item k of
\* body.skill_descriptions.items(), whose _compute_embedding call returned a vector
StoreEmbedding(emb, body, k) ==
    LET skill_id == body.skill_descriptions[k][1]
        description == body.skill_descriptions[k][2]
        embedding == EmbeddingOf(TextToEmbed(skill_id, description))
    IN  IF embedding # <<>>
        THEN DictSet(emb, EmbeddingKey(body.agent_id, skill_id), embedding)
        ELSE emb

\* register_agent: the embedding loop from item k on; `ok` is the set of items
\* whose _compute_embedding call succeeds (the others return None)
RECURSIVE StoreEmbeddings(_, _, _, _)
StoreEmbeddings(emb, body, k, ok) ==
    IF k > Len(body.skill_descriptions) THEN emb
    ELSE StoreEmbeddings(IF k \in ok THEN StoreEmbedding(emb, body, k) ELSE emb,
                         body, k + 1, ok)

\* the slots of request handlers that can be suspended at the same time
HandlerIds == {"h1", "h2"}

Idle == [op |-> "idle"]

\* how one write to the durable store can end: there is none when the store
\* is absent (USE_MONGO false, _mongo_col None), else it is done or it raises
WriteOutcomes(col) == IF col = None THEN {"skipped"} ELSE {"written", "raised"}

\* update_one({"agent_id": id}, {"$set": agent_dict}, upsert=True): the fields
\* of agent_dict are set on the document of that id, made if there is none
update_one(docs, agent_dict) ==
    DictSet(docs, agent_dict.agent_id,
            IF DictHas(docs, agent_dict.agent_id)
            THEN agent_dict @@ DictGet(docs, agent_dict.agent_id)
            ELSE agent_dict)

\* _save_agent with no try/except around the write: the exception reaches
\* the handler
_save_agent_unguarded(col, agent_dict, outcome) ==
    IF col = None THEN [col |-> col, raised |-> FALSE]
    ELSE IF outcome = "written"
         THEN [col |-> [docs |-> update_one(col.docs, agent_dict)], raised |-> FALSE]
    ELSE [col |-> col, raised |-> TRUE]

\* _save_agent: the collection it leaves and whether it raised; a failed
\* write is logged and swallowed
_save_agent(col, agent_dict, outcome) ==
    IF col = None THEN [col |-> col, raised |-> FALSE]
    ELSE IF outcome = "written"
         THEN [col |-> [docs |-> update_one(col.docs, agent_dict)], raised |-> FALSE]
    ELSE [col |-> col, raised |-> FALSE]

\* _delete_agent_from_mongo: delete_one({"agent_id": agent_id}), a failure
\* logged and swallowed
_delete_agent_from_mongo(col, agent_id, outcome) ==
    IF col = None THEN [col |-> col, raised |-> FALSE]
    ELSE IF outcome = "written"
         THEN [col |-> [docs |-> DictPop(col.docs, agent_id)], raised |-> FALSE]
    ELSE [col |-> col, raised |-> FALSE]

\* a registration that answers 500 when an embedding call fails
IndexRegisterStrict(body) ==
    /\ registry' = RegistryUpsert(registry, body, now)
    /\ \E outcome \in WriteOutcomes(mongo_col) :
          mongo_col' = _save_agent(mongo_col, AgentDict(body, now), outcome).col
    /\ \E ok \in SUBSET DOMAIN body.skill_descriptions :
          /\ embeddings' = IF body.skill_descriptions # <<>> /\ USE_EMBEDDINGS
                           THEN StoreEmbeddings(embeddings, body, 1, ok)
                           ELSE embeddings
          /\ index_last' = [op |-> "register", arg |-> body.agent_id,
                            status |-> IF ok = DOMAIN body.skill_descriptions
                                       THEN 200 ELSE 500,
                            result |-> <<>>]
    /\ UNCHANGED <<now, storeVars, resolverVars, USE_EMBEDDINGS, handlers, reg_writer, refreshed>>

\* POST /register, run to completion with no other request in between
IndexRegister(body) ==
    /\ registry' = RegistryUpsert(registry, body, now)
    /\ \E outcome \in WriteOutcomes(mongo_col) :
          LET save == _save_agent(mongo_col, AgentDict(body, now), outcome)
          IN  /\ mongo_col' = save.col
              /\ IF save.raised
                 THEN /\ UNCHANGED embeddings
                      /\ index_last' = [op |-> "register", arg |-> body.agent_id,
                                        status |-> 500, result |-> <<>>]
                 ELSE /\ \E ok \in SUBSET DOMAIN body.skill_descriptions :
                            embeddings' = IF body.skill_descriptions # <<>> /\ USE_EMBEDDINGS
                                          THEN StoreEmbeddings(embeddings, body, 1, ok)
                                          ELSE embeddings
                      /\ index_last' = [op |-> "register", arg |-> body.agent_id,
                                        status |-> 200, result |-> <<>>]
    /\ UNCHANGED <<now, storeVars, resolverVars, USE_EMBEDDINGS, handlers, reg_writer, refreshed>>

\* DELETE /agents/{agent_id}
IndexDelete(agent_id) ==
    /\ IF ~DictHas(registry, agent_id)
       THEN /\ index_last' = [op |-> "delete", arg |-> agent_id,
                              status |-> 404, result |-> <<>>]
            /\ UNCHANGED <<registry, mongo_col>>
       ELSE /\ registry' = DictPop(registry, agent_id)
            /\ \E outcome \in WriteOutcomes(mongo_col) :
                   mongo_col' = _delete_agent_from_mongo(mongo_col, agent_id, outcome).col
            /\ index_last' = [op |-> "delete", arg |-> agent_id,
                              status |-> 200, result |-> <<>>]
    /\ UNCHANGED <<now, storeVars, resolverVars, USE_EMBEDDINGS, embeddings, handlers,
                   reg_writer, refreshed>>

\* GET /lookup/{agent_id}
IndexLookup(agent_id) ==
    /\ index_last' = IF ~DictHas(registry, agent_id)
                     THEN [op |-> "lookup", arg |-> agent_id, status |-> 404, result |-> <<>>]
                     ELSE [op |-> "lookup", arg |-> agent_id, status |-> 200,
                           result |-> <<DictGet(registry, agent_id)>>]
    /\ UNCHANGED <<now, storeVars, resolverVars, USE_EMBEDDINGS, mongo_col, registry, embeddings, handlers,
                   reg_writer, refreshed>>

\* GET /list
IndexList ==
    /\ index_last' = [op |-> "list", arg |-> <<>>, status |-> 200,
                      result |-> DictValues(registry)]
    /\ UNCHANGED <<now, storeVars, resolverVars, USE_EMBEDDINGS, mongo_col, registry, embeddings, handlers,
                   reg_writer, refreshed>>

\* GET /search query parameters
SearchRequest ==
    { [skills |-> NoText, region |-> NoText, q |-> NoText],
      [skills |-> <<"b", "r">>, region |-> NoText, q |-> NoText],
      [skills |-> <<"x", ",", " ", "a", "l">>, region |-> <<"e", "u", " ">>, q |-> NoText],
      [skills |-> NoText, region |-> NoText, q |-> <<"S", "a", "1">>] }

\* search_agents: the skill keywords of the request
SkillKeywords(skills) ==
    IF skills # NoText /\ skills # <<>>
    THEN MapSeq(SelectSeq(SplitOn(skills, ","), LAMBDA kw : Strip(kw) # <<>>),
                LAMBDA kw : Lower(Strip(kw)))
    ELSE <<>>

\* search_agents: does the record pass the three filters
SearchMatches(agent_dict, req) ==
    LET skill_keywords == SkillKeywords(req.skills)
        region_filter == IF req.region # NoText /\ req.region # <<>>
                         THEN Upper(Strip(req.region)) ELSE NoText
        q_lower == IF req.q # NoText /\ req.q # <<>> THEN Lower(Strip(req.q)) ELSE NoText
        agent_skills == MapSeq(agent_dict.skills, Lower)
    IN  /\ skill_keywords # <<>> =>
              \E k \in DOMAIN skill_keywords : \E j \in DOMAIN agent_skills :
                  Contains(skill_keywords[k], agent_skills[j])
        /\ (region_filter # NoText /\ region_filter # <<>>) =>
              Upper(OrEmpty(agent_dict.region)) = region_filter
        /\ (q_lower # NoText /\ q_lower # <<>>) =>
              \/ Contains(q_lower, Lower(agent_dict.agent_id))
              \/ Contains(q_lower, Lower(agent_dict.agent_name))

\* search_agents
search_agents(reg, req) ==
    SelectSeq(DictValues(reg), LAMBDA agent_dict : SearchMatches(agent_dict, req))

\* GET /search
IndexSearch(req) ==
    /\ index_last' = [op |-> "search", arg |-> req, status |-> 200,
                      result |-> search_agents(registry, req)]
    /\ UNCHANGED <<now, storeVars, resolverVars, USE_EMBEDDINGS, mongo_col, registry, embeddings, handlers,
                   reg_writer, refreshed>>

\* ------------------------------------------------------------------------
\* nanda-index/registry.py: POST /resolve, the relevance matcher
\* ------------------------------------------------------------------------
\* scores are held in units of 1/ScoreScale
ScoreScale == 30000
\* ResolveRequest.min_score default 0.65
DefaultMinScore == (65 * ScoreScale) \div 100
\* similarity threshold 0.6 of the semantic tier
SemanticThreshold == (6 * ScoreScale) \div 10

\* integer square root
ISqrt(n) == CHOOSE r \in 0..n : r * r <= n /\ (r + 1) * (r + 1) > n

\* np.dot
RECURSIVE Dot(_, _)
Dot(a, b) ==
    IF a = <<>> \/ b = <<>> THEN 0 ELSE Head(a) * Head(b) + Dot(Tail(a), Tail(b))

\* _cosine_similarity
cosine_similarity(a, b) ==
    IF a = <<>> \/ b = <<>> THEN 0
    ELSE LET norm_a == ISqrt(Dot(a, a))
             norm_b == ISqrt(Dot(b, b))
         IN  IF norm_a = 0 \/ norm_b = 0 THEN 0
             ELSE (Dot(a, b) * ScoreScale) \div (norm_a * norm_b)

\* a fast path that stops at the first agent holding skill_hint
ExactCandidatesFirst(reg, skill_hint) ==
    LET hits == SelectSeq(DictValues(reg),
                          LAMBDA agent_dict : InList(skill_hint, agent_dict.skills))
    IN  [i \in DOMAIN hits \cap {1} |->
            [agent |-> hits[i], matched_skill |-> skill_hint,
             relevance_score |-> ScoreScale, match_reason |-> "exact"]]

\* resolve_agents, fast path: agents whose skills hold skill_hint verbatim
ExactCandidates(reg, skill_hint) ==
    LET hits == SelectSeq(DictValues(reg),
                          LAMBDA agent_dict : InList(skill_hint, agent_dict.skills))
    IN  [i \in DOMAIN hits |->
            [agent |-> hits[i], matched_skill |-> skill_hint,
             relevance_score |-> ScoreScale, match_reason |-> "exact"]]

\* resolve_agents, semantic path: one candidate per stored embedding that is
\* similar enough and whose agent is in the registry
SemanticCandidates(reg, emb, query_embedding) ==
    LET hits == SelectSeq(emb,
                    LAMBDA e : /\ cosine_similarity(query_embedding, e[2]) >= SemanticThreshold
                               /\ DictHas(reg, SplitKey(e[1])[1]))
    IN  [i \in DOMAIN hits |->
            [agent |-> DictGet(reg, SplitKey(hits[i][1])[1]),
             matched_skill |-> SplitKey(hits[i][1])[2],
             relevance_score |-> cosine_similarity(query_embedding, hits[i][2]),
             match_reason |-> "semantic"]]

\* resolve_agents: keywords of the query, words longer than 2 characters
QueryKeywords(query) ==
    SelectSeq(MapSeq(SplitWords(Lower(query)), Strip), LAMBDA kw : Len(kw) > 2)

\* resolve_agents: f"{skill_lower} {desc_lower}"
CombinedText(agent_dict, skill_id) ==
    Lower(skill_id) \o <<" ">> \o Lower(DictGetOr(SkillDescriptions(agent_dict), skill_id, <<>>))

\* resolve_agents, substring fallback: the first skill of each agent whose
\* text holds a keyword
SubstringCandidates(reg, query) ==
    LET query_keywords == QueryKeywords(query)
        Hit(agent_dict, skill_id) ==
            \E k \in DOMAIN query_keywords :
                Contains(query_keywords[k], CombinedText(agent_dict, skill_id))
        hits == SelectSeq(DictValues(reg),
                    LAMBDA agent_dict : \E j \in DOMAIN agent_dict.skills :
                                            Hit(agent_dict, agent_dict.skills[j]))
        Cand(agent_dict) ==
            LET j == CHOOSE j \in DOMAIN agent_dict.skills :
                        /\ Hit(agent_dict, agent_dict.skills[j])
                        /\ \A h \in 1..(j - 1) : ~Hit(agent_dict, agent_dict.skills[h])
                skill_id == agent_dict.skills[j]
                match_count == Cardinality({k \in DOMAIN query_keywords :
                                   Contains(query_keywords[k], CombinedText(agent_dict, skill_id))})
                ratio == (match_count * ScoreScale) \div Len(query_keywords)
            IN  [agent |-> agent_dict, matched_skill |-> skill_id,
                 relevance_score |-> IF ratio < ScoreScale THEN ratio ELSE ScoreScale,
                 match_reason |-> "substring"]
    IN  [i \in DOMAIN hits |-> Cand(hits[i])]

\* datetime.fromisoformat
FromIsoFormat(text) == text.iso

\* resolve_agents, phase 2: the context score of one candidate
ContextScore(agent_dict, context, t) ==
    LET requester_region == Upper(DictGetOr(context, "region", <<>>))
        agent_region == Upper(OrEmpty(agent_dict.region))
        region_part == IF requester_region # <<>> /\ agent_region = requester_region
                       THEN (30 * ScoreScale) \div 100
                       ELSE IF requester_region = <<>> THEN (15 * ScoreScale) \div 100
                       ELSE 0
        compliance_part == (15 * ScoreScale) \div 100
        lead_time_part == (10 * ScoreScale) \div 100
        age_seconds == t - FromIsoFormat(agent_dict.registered_at)
        availability_part == IF age_seconds < agent_dict.ttl
                             THEN (20 * ScoreScale) \div 100 ELSE 0
        score == region_part + compliance_part + lead_time_part + availability_part
    IN  IF score < ScoreScale THEN score ELSE ScoreScale

\* resolve_agents, phase 3: 0.6 * relevance + 0.4 * context_score
CombinedScore(relevance, context_score) == (6 * relevance + 4 * context_score) \div 10

\* ResolvedAgent(...) of one candidate
ResolvedAgent(candidate, context, t) ==
    LET agent_dict == candidate.agent
        context_score == ContextScore(agent_dict, context, t)
    IN  [agent_id |-> agent_dict.agent_id, agent_name |-> agent_dict.agent_name,
         facts_url |-> agent_dict.facts_url, skills |-> agent_dict.skills,
         region |-> agent_dict.region,
         relevance_score |-> candidate.relevance_score,
         context_score |-> context_score,
         combined_score |-> CombinedScore(candidate.relevance_score, context_score),
         matched_skill |-> candidate.matched_skill,
         match_reason |-> candidate.match_reason]

\* the results left in the order the candidates were found
Unsorted(results) == results

\* list.sort(key=combined_score, reverse=True): stable, highest first
RECURSIVE SortByScore(_)
SortByScore(results) ==
    IF results = <<>> THEN <<>>
    ELSE LET best == CHOOSE i \in DOMAIN results :
                        /\ \A j \in DOMAIN results :
                               results[j].combined_score <= results[i].combined_score
                        /\ \A j \in 1..(i - 1) :
                               results[j].combined_score < results[i].combined_score
         IN  <<results[best]>> \o
             SortByScore(SubSeq(results, 1, best - 1) \o SubSeq(results, best + 1, Len(results)))

\* a ranking that keeps every scored candidate
RankCandidatesUnfiltered(candidates, body, t) ==
    SortByScore(MapSeq(candidates, LAMBDA c : ResolvedAgent(c, body.context, t)))

\* resolve_agents, phases 2 and 3: score, drop below min_score, rank
RankCandidates(candidates, body, t) ==
    SortByScore(SelectSeq(MapSeq(candidates, LAMBDA c : ResolvedAgent(c, body.context, t)),
                          LAMBDA r : r.combined_score >= body.min_score))

\* resolve_agents, phase 1 before the await of the query embedding
FastPath(reg, body) ==
    IF body.skill_hint # <<>> THEN ExactCandidates(reg, body.skill_hint) ELSE <<>>

\* a matcher whose substring tier also runs after the semantic tier matched
SlowPathMerged(reg, emb, body, query_embedding) ==
    (IF query_embedding # <<>>
     THEN SemanticCandidates(reg, emb, query_embedding) ELSE <<>>)
    \o (IF body.query # <<>> THEN SubstringCandidates(reg, body.query) ELSE <<>>)

\* resolve_agents, phase 1 after the fast path found nothing; query_embedding
\* is what _compute_embedding(body.query) returned (<<>> for None)
SlowPath(reg, emb, body, query_embedding) ==
    LET semantic == IF query_embedding # <<>>
                    THEN SemanticCandidates(reg, emb, query_embedding) ELSE <<>>
    IN  IF semantic # <<>> THEN semantic
        ELSE IF body.query # <<>> THEN SubstringCandidates(reg, body.query)
        ELSE <<>>

\* ResolveRequest: the bodies of POST /resolve offered to the index
ResolveRequest ==
    { [query |-> q, skill_hint |-> h, context |-> c, min_score |-> m] :
        q \in {<<>>, DISC \o <<" ", "o", "f">>}, h \in {<<>>, BRK},
        c \in {<<>>, <<<<"region", <<"e", "u">>>>>>}, m \in {DefaultMinScore} }

\* can resolve_agents reach `await _compute_embedding(body.query)`
AwaitsEmbedding(reg, body) ==
    FastPath(reg, body) = <<>> /\ USE_EMBEDDINGS /\ body.query # <<>>

\* how the call `await _compute_embedding(body.query)` of a resolve ended
EmbeddingCall(reg, body, query_embedding) ==
    IF ~AwaitsEmbedding(reg, body) THEN "none"
    ELSE IF query_embedding = <<>> THEN "failed" ELSE "ok"

\* resolve_agents, phase 2: context.get("region", "").upper() raises
\* AttributeError when the context carries "region": null
ContextRaises(context) == DictGetOr(context, "region", <<>>) = NoText

\* POST /resolve, run to completion with no other request in between
IndexResolve(body) ==
    /\ \E query_embedding \in {<<>>, EmbeddingOf(body.query)} :
          /\ ~AwaitsEmbedding(registry, body) => query_embedding = <<>>
          /\ index_last' =
                IF ContextRaises(body.context)
                THEN [op |-> "resolve", arg |-> body, status |-> 500, result |-> <<>>,
                      embedding |-> EmbeddingCall(registry, body, query_embedding)]
                ELSE [op |-> "resolve", arg |-> body, status |-> 200,
                      embedding |-> EmbeddingCall(registry, body, query_embedding),
                      result |-> RankCandidates(
                          IF FastPath(registry, body) # <<>> THEN FastPath(registry, body)
                          ELSE SlowPath(registry, embeddings, body, query_embedding),
                          body, now)]
    /\ UNCHANGED <<now, storeVars, resolverVars, USE_EMBEDDINGS, mongo_col, registry, embeddings, handlers,
                   reg_writer, refreshed>>

\* the wall clock of the lean index advances by one second
IndexTick ==
    /\ now < MaxIndexTime
    /\ now' = now + 1
    /\ index_last' = [op |-> "tick", arg |-> <<>>, status |-> 200, result |-> <<>>]
    /\ UNCHANGED <<storeVars, resolverVars, USE_EMBEDDINGS, mongo_col, registry, embeddings, handlers,
                   reg_writer, refreshed>>

IndexInit ==
    /\ registry = <<>>
    /\ embeddings = <<>>
    /\ handlers = [h \in HandlerIds |-> Idle]
    /\ reg_writer = [agent_id \in IndexIds |-> "none"]
    /\ refreshed = [agent_id \in IndexIds |-> {}]
    /\ index_last = [op |-> "init", arg |-> <<>>, status |-> 200, result |-> <<>>]

NextIndex ==
    \/ \E body \in RegisterRequest : IndexRegister(body)
    \/ \E agent_id \in IndexIds : IndexDelete(agent_id)
    \/ \E agent_id \in IndexIds : IndexLookup(agent_id)
    \/ IndexList
    \/ \E req \in SearchRequest : IndexSearch(req)
    \/ \E body \in ResolveRequest : IndexResolve(body)
    \/ IndexTick

\* ------------------------------------------------------------------------
\* nanda-index/registry.py: the lean index with a durable store that is
\* absent, connected, or failing on writes (SpecDurable)
\* ------------------------------------------------------------------------
DurableRegisterRequest == {body \in RegisterRequest : body.agent_id = A1}

DurableResolveRequest == {body \in ResolveRequest : body.context = <<>>}

NextDurable ==
    \/ \E body \in DurableRegisterRequest : IndexRegister(body)
    \/ \E agent_id \in IndexIds : IndexDelete(agent_id)
    \/ \E agent_id \in IndexIds : IndexLookup(agent_id)
    \/ IndexList
    \/ \E req \in SearchRequest : IndexSearch(req)
    \/ \E body \in DurableResolveRequest : IndexResolve(body)

\* ------------------------------------------------------------------------
\* nanda-index/registry.py: the matcher over a wider range of requests
\* (SpecMatcher)
\* ------------------------------------------------------------------------
StrictMinScore == (85 * ScoreScale) \div 100

\* ResolveRequest bodies: without a skill_hint, queries with no keyword, one
\* keyword or two keywords, the requester's region absent, "eu" or null; with
\* one, the region absent, "eu" or "us" and the default or a strict min_score
MatchRequest ==
    { [query |-> q, skill_hint |-> <<>>, context |-> c, min_score |-> DefaultMinScore] :
        q \in {<<>>, <<"o", "f">>, DISC \o <<" ", "o", "f">>, DISC \o <<" ">> \o PADS},
        c \in {<<>>, <<<<"region", <<"e", "u">>>>>>, <<<<"region", NoText>>>>} }
    \cup
    { [query |-> q, skill_hint |-> BRK, context |-> c, min_score |-> m] :
        q \in {<<>>, DISC \o <<" ">> \o PADS},
        c \in {<<>>, <<<<"region", <<"e", "u">>>>>>, <<<<"region", <<"u", "s">>>>>>},
        m \in {DefaultMinScore, StrictMinScore} }

MatcherRegisterRequest ==
    {body \in RegisterRequest :
        body.agent_id = A1 \/ body.skill_descriptions = <<<<BRK, PADS>>>>}

NextMatcher ==
    \/ \E body \in MatcherRegisterRequest : IndexRegister(body)
    \/ \E agent_id \in IndexIds : IndexDelete(agent_id)
    \/ \E body \in MatchRequest : IndexResolve(body)
    \/ IndexTick

\* ------------------------------------------------------------------------
\* nanda-index/registry.py: handlers interleaved at their awaits
\* ------------------------------------------------------------------------
\* POST /register up to its first await: the record is in _registry
ConcRegisterStart(h, body) ==
    /\ handlers[h] = Idle
    /\ registry' = RegistryUpsert(registry, body, now)
    /\ \E outcome \in WriteOutcomes(mongo_col) :
          mongo_col' = _save_agent(mongo_col, AgentDict(body, now), outcome).col
    /\ reg_writer' = [agent_id \in IndexIds |->
                         IF agent_id = body.agent_id THEN h
                         ELSE IF reg_writer[agent_id] = h THEN "gone"
                         ELSE reg_writer[agent_id]]
    /\ refreshed' = [refreshed EXCEPT ![body.agent_id] = {}]
    /\ IF body.skill_descriptions # <<>> /\ USE_EMBEDDINGS
       THEN /\ handlers' = [handlers EXCEPT ![h] = [op |-> "register", body |-> body, k |-> 1]]
            /\ UNCHANGED index_last
       ELSE /\ index_last' = [op |-> "register", arg |-> body.agent_id,
                              status |-> 200, result |-> <<>>]
            /\ UNCHANGED handlers
    /\ UNCHANGED <<now, storeVars, resolverVars, USE_EMBEDDINGS, embeddings>>

\* POST /register resumed: `await _compute_embedding(...)` of item k returns
\* (a vector when ok, None otherwise) and the loop runs to its next await
ConcRegisterResume(h, ok) ==
    /\ handlers[h].op = "register"
    /\ LET body == handlers[h].body
           k == handlers[h].k
       IN  /\ embeddings' = IF ok THEN StoreEmbedding(embeddings, body, k) ELSE embeddings
           /\ refreshed' = IF ok /\ reg_writer[body.agent_id] = h
                           THEN [refreshed EXCEPT ![body.agent_id] =
                                    @ \cup {body.skill_descriptions[k][1]}]
                           ELSE refreshed
           /\ IF k < Len(body.skill_descriptions)
              THEN /\ handlers' = [handlers EXCEPT ![h].k = k + 1]
                   /\ UNCHANGED index_last
              ELSE /\ handlers' = [handlers EXCEPT ![h] = Idle]
                   /\ index_last' = [op |-> "register", arg |-> body.agent_id,
                                     status |-> 200, result |-> <<>>]
    /\ UNCHANGED <<now, storeVars, resolverVars, USE_EMBEDDINGS, mongo_col, registry, reg_writer>>

\* DELETE /agents/{agent_id}: no await
ConcDelete(agent_id) ==
    /\ IF ~DictHas(registry, agent_id)
       THEN /\ index_last' = [op |-> "delete", arg |-> agent_id,
                              status |-> 404, result |-> <<>>]
            /\ UNCHANGED <<registry, reg_writer, refreshed, mongo_col>>
       ELSE /\ registry' = DictPop(registry, agent_id)
            /\ \E outcome \in WriteOutcomes(mongo_col) :
                   mongo_col' = _delete_agent_from_mongo(mongo_col, agent_id, outcome).col
            /\ reg_writer' = [reg_writer EXCEPT ![agent_id] = "none"]
            /\ refreshed' = [refreshed EXCEPT ![agent_id] = {}]
            /\ index_last' = [op |-> "delete", arg |-> agent_id,
                              status |-> 200, result |-> <<>>]
    /\ UNCHANGED <<now, storeVars, resolverVars, USE_EMBEDDINGS, embeddings, handlers>>

\* POST /resolve up to `await _compute_embedding(body.query)`, or to its end
\* when it does not get there
ConcResolveStart(h, body) ==
    /\ handlers[h] = Idle
    /\ IF AwaitsEmbedding(registry, body)
       THEN /\ handlers' = [handlers EXCEPT ![h] = [op |-> "resolve", body |-> body, k |-> 0]]
            /\ UNCHANGED index_last
       ELSE /\ index_last' =
                   [op |-> "resolve", arg |-> body, status |-> 200,
                    result |-> RankCandidates(
                        IF FastPath(registry, body) # <<>> THEN FastPath(registry, body)
                        ELSE SlowPath(registry, embeddings, body, <<>>),
                        body, now)]
            /\ UNCHANGED handlers
    /\ UNCHANGED <<now, storeVars, resolverVars, USE_EMBEDDINGS, mongo_col, registry, embeddings,
                   reg_writer, refreshed>>

\* POST /resolve resumed with the query embedding (None when ok is false)
ConcResolveResume(h, ok) ==
    /\ handlers[h].op = "resolve"
    /\ LET body == handlers[h].body
           query_embedding == IF ok THEN EmbeddingOf(body.query) ELSE <<>>
       IN  index_last' =
               [op |-> "resolve", arg |-> body, status |-> 200,
                result |-> RankCandidates(
                    SlowPath(registry, embeddings, body, query_embedding), body, now)]
    /\ handlers' = [handlers EXCEPT ![h] = Idle]
    /\ UNCHANGED <<now, storeVars, resolverVars, USE_EMBEDDINGS, mongo_col, registry, embeddings,
                   reg_writer, refreshed>>

\* the interleavings are explored for requests on one agent_id
ConcRegisterRequest == {body \in RegisterRequest : body.agent_id = A1}

ConcResolveRequest == {body \in ResolveRequest : body.context = <<>>}

NextIndexConc ==
    \/ \E h \in HandlerIds, body \in ConcRegisterRequest : ConcRegisterStart(h, body)
    \/ \E h \in HandlerIds, ok \in BOOLEAN : ConcRegisterResume(h, ok)
    \/ \E agent_id \in IndexIds : ConcDelete(agent_id)
    \/ \E h \in HandlerIds, body \in ConcResolveRequest : ConcResolveStart(h, body)
    \/ \E h \in HandlerIds, ok \in BOOLEAN : ConcResolveResume(h, ok)
    \/ \E agent_id \in IndexIds : IndexLookup(agent_id)

\* ------------------------------------------------------------------------
\* resolver/main.py: the adaptive resolver
\* ------------------------------------------------------------------------
\* current_load is held in hundredths (0.9 is 90)
HighLoad == 90

FullLoad == 100

\* ttl of a referral, of a NegotiationInvitation; ceiling of a tailored ttl
ReferralTTL == 3600

NegotiationTTL == 60

MaxTailoredTTL == 300

\* coordinates are held in hundredths of a degree, distances in tenths of a km
EU_POINT == <<5085, 435>>

US_POINT == <<3983, -9858>>

STUTTGART == <<4878, 918>>

MARANELLO == <<4453, 1086>>

\* GEO_LOOKUP, the entries "eu" and "us", in the order of the dict
GEO_LOOKUP == << <<Lower(EU), EU_POINT>>, << <<"u", "s">>, US_POINT>> >>

\* _haversine_km on the points above (great-circle distance, R = 6371 km),
\* lat/lon given apart as in the code
_haversine_km(lat1, lon1, lat2, lon2) ==
    LET a == <<lat1, lon1>>
        b == <<lat2, lon2>>
        pair == {a, b}
    IN  CASE a = b -> 0
          [] pair = {EU_POINT, US_POINT} -> 74674
          [] pair = {EU_POINT, STUTTGART} -> 4159
          [] pair = {EU_POINT, MARANELLO} -> 8544
          [] pair = {US_POINT, STUTTGART} -> 78823
          [] pair = {US_POINT, MARANELLO} -> 82858
          [] pair = {STUTTGART, MARANELLO} -> 4896

\* d = 10000.0, the distance of a resource of unknown location
UnknownLocationPenalty == 100000

\* _geo_to_latlon: the first key of GEO_LOOKUP held by geo.lower(); None for
\* no geo or no key
_geo_to_latlon(geo) ==
    IF geo = NoText \/ geo = <<>> THEN None
    ELSE LET hits == SelectSeq(GEO_LOOKUP, LAMBDA e : Contains(e[1], Lower(geo)))
         IN  IF hits = <<>> THEN None ELSE [coords |-> hits[1][2]]

\* resolver-side AgentAddr (shared/agent_facts.py): the pointer records the
\* index can answer with
FactsPath == "/.well-known/agent-facts"

ResolverAddrs ==
    { [agent_id |-> "a1", agent_name |-> <<"s", "e">>,
       primary_facts_url |-> <<"h1", FactsPath>>, adaptive_resolver_url |-> NoStr,
       ttl |-> 1, zone |-> "z1", signature |-> NoSignature, registered_at |-> None],
      [agent_id |-> "a2", agent_name |-> <<"s", "e", "u">>,
       primary_facts_url |-> <<"h2", FactsPath>>, adaptive_resolver_url |-> "r2",
       ttl |-> MaxTailoredTTL + 100, zone |-> NoStr,
       signature |-> NoSignature, registered_at |-> None] }

AddrOf(agent_id) == CHOOSE addr \in ResolverAddrs : addr.agent_id = agent_id

\* DeploymentResource: a field that is None is left out of the record
RES_DE == [resource_id |-> "de", geo_location |-> "Stuttgart",
           geo_lat |-> STUTTGART[1], geo_lon |-> STUTTGART[2]]

RES_IT == [resource_id |-> "it", geo_location |-> "Maranello",
           geo_lat |-> MARANELLO[1], geo_lon |-> MARANELLO[2]]

\* a second resource at the site of RES_IT
RES_IT_B == [resource_id |-> "ib", geo_location |-> "Maranello",
             geo_lat |-> MARANELLO[1], geo_lon |-> MARANELLO[2]]

RES_NOWHERE == [resource_id |-> "xx", geo_location |-> ""]

RES_NOLON == [resource_id |-> "nl", geo_location |-> "", geo_lat |-> STUTTGART[1]]

\* the bodies of POST /deployments (current_load validated to 0..1)
AgentDeploymentRecord ==
    { [agent_id |-> "a1", resources |-> <<RES_NOWHERE, RES_DE, RES_IT, RES_IT_B>>,
       deployment_mode |-> "multi-region", current_load |-> 0],
      [agent_id |-> "a1", resources |-> <<RES_NOLON>>,
       deployment_mode |-> "single-origin", current_load |-> 0] }

\* the load values of PATCH /deployments/{agent_id}/load, out-of-range ones too
LoadReports == {-5, HighLoad, HighLoad + 1, FullLoad + 20}

Zones == {"z1"}

\* RESOLVER_URL of this resolver, and another authoritative name server
SelfNS == "http://localhost:resolver"

OtherNS == "http://ns.other"

\* RequesterContext: a field that is None is left out of the record
RequesterContext ==
    { <<>>,
      [geo_location |-> EU],
      [geo_location |-> EU, security_level |-> "zero-trust"],
      [geo_location |-> EU, security_level |-> "public"],
      [geo_lat |-> STUTTGART[1], security_level |-> "public"],
      [geo_lat |-> MARANELLO[1], geo_lon |-> MARANELLO[2], session_type |-> "streaming"] }

\* getattr(ctx, field, None) is None
AttrIsNone(ctx, field) == field \notin DOMAIN ctx

\* the bodies of POST /resolve
AdaptiveResolveRequest ==
    [agent_name : {<<"s", "e">>, <<"x">>}, context : RequesterContext]

\* what POST {REGISTRY_URL}/discover can answer: an error, or a list of records
DiscoverResponses ==
    { [raised |-> TRUE],
      [results |-> <<AddrOf("a1")>>],
      [results |-> <<AddrOf("a2"), AddrOf("a1")>>] }

\* AgentFacts documents a target can host at addr.primary_facts_url
AgentFacts ==
    { [context_requirements |-> <<"geo_location">>,
       endpoints |-> [static |-> <<"s1", "s2">>, rotating |-> <<>>]],
      [context_requirements |-> <<>>,
       endpoints |-> [static |-> <<"s1">>, rotating |-> <<"r1", "r2">>]],
      [context_requirements |-> <<"geo_location", "security_level">>,
       endpoints |-> [static |-> <<>>, rotating |-> <<>>]] }

\* how GET addr.primary_facts_url can end: the document with status 200,
\* another status, or an exception of the client
FetchOutcomes == {"ok", "unavailable", "raised"}

\* the documents hosted and the ways the GET ends that are explored together
FactsFetches ==
    {<<agent_facts, "ok">> : agent_facts \in AgentFacts}
    \cup {<<agent_facts, fetch>> \in AgentFacts \X FetchOutcomes :
              /\ Len(agent_facts.context_requirements) = 1
              /\ fetch # "ok"}

FactsResponse(agent_facts, fetch) ==
    CASE fetch = "ok" -> [status |-> 200, json |-> agent_facts]
      [] fetch = "unavailable" -> [status |-> 503]
      [] fetch = "raised" -> [raised |-> TRUE]

\* _fetch_addr_from_index, the cache loop: the first cached record of that
\* name that has not expired
CachedAddr(cache, agent_name, t) ==
    LET hits == SelectSeq(cache, LAMBDA e : e[2][1].agent_name = agent_name /\ e[2][2] > t)
    IN  IF hits = <<>> THEN None ELSE hits[1][2][1]

\* _fetch_addr_from_index, the record taken from the answer of the index: the
\* first whose name equals or holds agent_name, else the first of the list
DiscoveredAddr(agent_name, response) ==
    IF "results" \notin DOMAIN response \/ response.results = <<>> THEN None
    ELSE LET hits == SelectSeq(response.results,
                         LAMBDA r : r.agent_name = agent_name
                                    \/ Contains(agent_name, r.agent_name))
         IN  IF hits # <<>> THEN hits[1] ELSE response.results[1]

\* _fetch_addr_from_index: the record returned and the cache it leaves
_fetch_addr_from_index(cache, agent_name, response, t) ==
    IF CachedAddr(cache, agent_name, t) # None
    THEN [addr |-> CachedAddr(cache, agent_name, t), cache |-> cache]
    ELSE LET addr == DiscoveredAddr(agent_name, response)
         IN  IF addr = None THEN [addr |-> None, cache |-> cache]
             ELSE [addr |-> addr,
                   cache |-> DictSet(cache, addr.agent_id, <<addr, t + addr.ttl>>)]

\* adaptive_resolve, step 2: the zone of the record has a referral
ReferralApplies(referrals, addr) ==
    Truthy(addr.zone) /\ DictHas(referrals, addr.zone)

Referral(req, referrals, addr) ==
    [type |-> "referral", agent_name |-> req.agent_name,
     referral_to |-> DictGet(referrals, addr.zone), zone |-> addr.zone,
     ttl |-> ReferralTTL]

\* adaptive_resolve, step 4: agent_facts_data, None unless the fetch gave 200
AgentFactsData(facts_response) ==
    IF "status" \in DOMAIN facts_response /\ facts_response.status = 200
    THEN facts_response.json ELSE None

\* step 4 with the test of the field inverted (`if val is not None`)
MissingContextInverted(ctx, facts_response) ==
    IF AgentFactsData(facts_response) = None THEN <<>>
    ELSE SelectSeq(AgentFactsData(facts_response).context_requirements,
                   LAMBDA field : ~AttrIsNone(ctx, field))

\* adaptive_resolve, step 4: the required fields that are None in ctx
MissingContext(ctx, facts_response) ==
    IF AgentFactsData(facts_response) = None THEN <<>>
    ELSE SelectSeq(AgentFactsData(facts_response).context_requirements,
                   LAMBDA field : AttrIsNone(ctx, field))

ZeroTrust(ctx) == ~AttrIsNone(ctx, "security_level") /\ ctx.security_level = "zero-trust"

Overloaded(deployment) == deployment # None /\ deployment.current_load > HighLoad

\* step 5 with the load test ahead of the zero-trust test
NegotiationReasonLoadFirst(ctx, deployment, missing_context) ==
    IF missing_context # <<>>
    THEN [text |-> "Target requires context: {}", fields |-> missing_context]
    ELSE IF Overloaded(deployment)
         THEN [text |-> "Agent at high load ({}), QoS negotiation required",
               load |-> deployment.current_load]
    ELSE IF ZeroTrust(ctx)
         THEN [text |-> "Zero-trust security requires mutual attestation"]
    ELSE [text |-> ""]

\* adaptive_resolve, step 5: negotiation_reason, "" when none is needed
NegotiationReason(ctx, deployment, missing_context) ==
    IF missing_context # <<>>
    THEN [text |-> "Target requires context: {}", fields |-> missing_context]
    ELSE IF ZeroTrust(ctx)
         THEN [text |-> "Zero-trust security requires mutual attestation"]
    ELSE IF Overloaded(deployment)
         THEN [text |-> "Agent at high load ({}), QoS negotiation required",
               load |-> deployment.current_load]
    ELSE [text |-> ""]

NeedsNegotiation(ctx, deployment, missing_context) ==
    NegotiationReason(ctx, deployment, missing_context).text # ""

NegotiationInvitation(addr, ctx, deployment, missing_context) ==
    [type |-> "negotiation_invitation", agent_id |-> addr.agent_id,
     negotiation_url |-> <<IF Truthy(addr.adaptive_resolver_url)
                           THEN <<addr.adaptive_resolver_url>>
                           ELSE addr.primary_facts_url, "/negotiate">>,
     reason |-> NegotiationReason(ctx, deployment, missing_context),
     required_context |-> missing_context,
     trust_requirements |->
         [security_level |-> IF ~AttrIsNone(ctx, "security_level") /\ ctx.security_level # ""
                             THEN ctx.security_level ELSE "authenticated"],
     ttl |-> NegotiationTTL]

Max(a, b) == IF a >= b THEN a ELSE b

Min(a, b) == IF a <= b THEN a ELSE b

\* adaptive_resolve, step 6: req_lat / req_lon, each left out when None
RequesterLocation(ctx) ==
    LET given == (IF AttrIsNone(ctx, "geo_lat") THEN <<>> ELSE [lat |-> ctx.geo_lat])
                 @@ (IF AttrIsNone(ctx, "geo_lon") THEN <<>> ELSE [lon |-> ctx.geo_lon])
        coords == IF AttrIsNone(ctx, "geo_location") THEN None
                  ELSE _geo_to_latlon(ctx.geo_location)
    IN  IF "lat" \notin DOMAIN given /\ coords # None
        THEN [lat |-> coords.coords[1], lon |-> coords.coords[2]]
        ELSE given

\* adaptive_resolve, step 6: ctx.geo_location was resolved to coordinates
GeoResolved(ctx) ==
    /\ AttrIsNone(ctx, "geo_lat")
    /\ ~AttrIsNone(ctx, "geo_location")
    /\ _geo_to_latlon(ctx.geo_location) # None

\* _pick_best_resource, the distance d of one resource
ResourceDistance(r, loc) ==
    IF "geo_lat" \in DOMAIN r /\ "geo_lon" \in DOMAIN r
    THEN _haversine_km(loc.lat, loc.lon, r.geo_lat, r.geo_lon)
    ELSE UnknownLocationPenalty

\* the loop of _pick_best_resource with `d <= best_dist`: the last of the
\* closest resources wins
PickStepLastWins(state, r, loc) ==
    LET d == ResourceDistance(r, loc)
    IN  IF state.best = None \/ d <= state.best_dist
        THEN [best |-> r, best_dist |-> d] ELSE state

\* _pick_best_resource, one pass of the loop: best and best_dist after r
\* (best is None while best_dist is float("inf"), below which every d lies)
PickStep(state, r, loc) ==
    LET d == ResourceDistance(r, loc)
    IN  IF state.best = None \/ d < state.best_dist
        THEN [best |-> r, best_dist |-> d] ELSE state

\* _pick_best_resource, the loop over resources[1..n]
RECURSIVE PickLoop(_, _, _)
PickLoop(resources, loc, n) ==
    IF n = 0 THEN [best |-> None, best_dist |-> None]
    ELSE PickStep(PickLoop(resources, loc, n - 1), resources[n], loc)

\* _pick_best_resource: None for no resources, the first resource when the
\* requester has no coordinates, else what the loop leaves in best
_pick_best_resource(resources, loc) ==
    IF resources = <<>> THEN None
    ELSE IF "lat" \notin DOMAIN loc \/ "lon" \notin DOMAIN loc THEN resources[1]
    ELSE PickLoop(resources, loc, Len(resources)).best

BestResource(deployment, ctx) ==
    IF deployment # None /\ deployment.resources # <<>>
    THEN _pick_best_resource(deployment.resources, RequesterLocation(ctx))
    ELSE None

\* `if req_lat and best_resource.geo_lat`: both given and not 0.0
ComputesDistance(deployment, ctx) ==
    LET loc == RequesterLocation(ctx)
        best == BestResource(deployment, ctx)
    IN  /\ best # None
        /\ "lat" \in DOMAIN loc /\ loc.lat # 0
        /\ "geo_lat" \in DOMAIN best /\ best.geo_lat # 0

\* the _haversine_km call of step 6 gets a None longitude: TypeError, the
\* request ends in a 500
DistanceRaises(deployment, ctx) ==
    /\ ComputesDistance(deployment, ctx)
    /\ \/ "lon" \notin DOMAIN RequesterLocation(ctx)
       \/ "geo_lon" \notin DOMAIN BestResource(deployment, ctx)

\* adaptive_resolve, step 6: the endpoints the request can get; random.choice
\* over a rotating pool can give any of its members
Endpoints(addr, facts_response) ==
    LET data == AgentFactsData(facts_response)
    IN  IF data = None
        THEN {SelectSeq(addr.primary_facts_url, LAMBDA part : part # FactsPath)}
        ELSE IF data.endpoints.rotating # <<>>
             THEN {<<data.endpoints.rotating[i]>> : i \in DOMAIN data.endpoints.rotating}
        ELSE IF data.endpoints.static # <<>> THEN {<<data.endpoints.static[1]>>}
        ELSE {<<>>}

Selection(facts_response) ==
    LET data == AgentFactsData(facts_response)
    IN  IF data = None THEN "derived_from_facts_url"
        ELSE IF data.endpoints.rotating # <<>> THEN "rotating_pool"
        ELSE IF data.endpoints.static # <<>> THEN "static_primary"
        ELSE ""

Transport(ctx) ==
    IF ~AttrIsNone(ctx, "session_type") /\ ctx.session_type = "streaming"
    THEN "wss" ELSE "https"

\* adaptive_resolve, step 6: context_used, the keys in the order they are set
ContextUsed(addr, ctx, deployment, facts_response) ==
    LET best == BestResource(deployment, ctx)
        loc == RequesterLocation(ctx)
    IN  (IF GeoResolved(ctx) THEN << <<"geo_resolved", ctx.geo_location>> >> ELSE <<>>)
        \o (IF best # None
            THEN << <<"geo_nearest_resource", best.resource_id>>,
                    <<"resource_location", best.geo_location>> >>
            ELSE <<>>)
        \o (IF ComputesDistance(deployment, ctx) /\ ~DistanceRaises(deployment, ctx)
            THEN << <<"distance_km",
                      _haversine_km(loc.lat, loc.lon, best.geo_lat, best.geo_lon)>> >>
            ELSE <<>>)
        \o (IF Selection(facts_response) # ""
            THEN << <<"selection", Selection(facts_response)>> >> ELSE <<>>)
        \o (IF deployment # None
            THEN << <<"agent_load", deployment.current_load>>,
                    <<"deployment_mode", deployment.deployment_mode>> >>
            ELSE <<>>)
        \o << <<"transport", Transport(ctx)>> >>

\* the ttl of the pointer record handed on as it is
TailoredTTLUncapped(addr) == addr.ttl

\* adaptive_resolve, step 6: ttl=min(addr.ttl, 300)
TailoredTTL(addr) == Min(addr.ttl, MaxTailoredTTL)

\* adaptive_resolve, step 6: the signed TailoredResponse for one endpoint
TailoredResponse(addr, ctx, deployment, facts_response, endpoint) ==
    LET payload == [agent_id |-> addr.agent_id, agent_name |-> addr.agent_name,
                    endpoint |-> endpoint, transport |-> Transport(ctx),
                    ttl |-> TailoredTTL(addr),
                    context_used |-> ContextUsed(addr, ctx, deployment, facts_response),
                    negotiation_required |-> FALSE]
    IN  payload @@ [signature |-> sign_document(payload), type |-> "tailored_response"]

\* adaptive_resolve after step 1: the responses the request can end in
ResolveOutcomes(req, addr, referrals, deployments, facts_response) ==
    LET ctx == req.context
        deployment == DictGet(deployments, addr.agent_id)
        missing_context == MissingContext(ctx, facts_response)
    IN  IF ReferralApplies(referrals, addr) THEN {Referral(req, referrals, addr)}
        ELSE IF NeedsNegotiation(ctx, deployment, missing_context)
             THEN {NegotiationInvitation(addr, ctx, deployment, missing_context)}
        ELSE IF DistanceRaises(deployment, ctx) THEN {[type |-> "error", status |-> 500]}
        ELSE {TailoredResponse(addr, ctx, deployment, facts_response, endpoint) :
                  endpoint \in Endpoints(addr, facts_response)}

\* POST /resolve; agent_facts is the document the target hosts and fetch the
\* way the GET of it ends, should the handler get to it
adaptive_resolve(req, discover_response, agent_facts, fetch) ==
    LET fetched == _fetch_addr_from_index(addr_cache, req.agent_name, discover_response, now)
        addr == fetched.addr
    IN  /\ addr_cache' = fetched.cache
        /\ IF addr = None
           THEN resolver_last' = [op |-> "resolve", request |-> req, addr |-> None,
                                  agent_facts |-> None, fetch |-> "none",
                                  response |-> [type |-> "error", status |-> 404]]
           ELSE \E response \in ResolveOutcomes(req, addr, zone_referrals,
                                    deployment_records, FactsResponse(agent_facts, fetch)) :
                    resolver_last' =
                        [op |-> "resolve", request |-> req, addr |-> addr,
                         agent_facts |-> agent_facts,
                         fetch |-> IF ReferralApplies(zone_referrals, addr)
                                   THEN "none" ELSE fetch,
                         response |-> response]
    /\ UNCHANGED <<now, storeVars, indexVars, deployment_records, zone_referrals>>

\* POST /deployments
register_deployment(record) ==
    /\ deployment_records' = DictSet(deployment_records, record.agent_id, record)
    /\ resolver_last' = [op |-> "register_deployment", arg |-> record.agent_id]
    /\ UNCHANGED <<now, storeVars, indexVars, zone_referrals, addr_cache>>

\* a load report stored as it comes
update_load_unclamped(agent_id, load) ==
    /\ deployment_records' =
           IF DictHas(deployment_records, agent_id)
           THEN DictSet(deployment_records, agent_id,
                        [DictGet(deployment_records, agent_id) EXCEPT
                            !.current_load = load])
           ELSE deployment_records
    /\ resolver_last' = [op |-> "update_load", arg |-> agent_id, load |-> load]
    /\ UNCHANGED <<now, storeVars, indexVars, zone_referrals, addr_cache>>

\* PATCH /deployments/{agent_id}/load
update_load(agent_id, load) ==
    /\ deployment_records' =
           IF DictHas(deployment_records, agent_id)
           THEN DictSet(deployment_records, agent_id,
                        [DictGet(deployment_records, agent_id) EXCEPT
                            !.current_load = Max(0, Min(FullLoad, load))])
           ELSE deployment_records
    /\ resolver_last' = [op |-> "update_load", arg |-> agent_id, load |-> load]
    /\ UNCHANGED <<now, storeVars, indexVars, zone_referrals, addr_cache>>

\* POST /zones/referral
register_zone_referral(zone, authoritative_ns_url) ==
    /\ zone_referrals' = DictSet(zone_referrals, zone, authoritative_ns_url)
    /\ resolver_last' = [op |-> "register_zone_referral", arg |-> zone]
    /\ UNCHANGED <<now, storeVars, indexVars, deployment_records, addr_cache>>

ResolverInit ==
    /\ deployment_records = <<>>
    /\ zone_referrals = <<>>
    /\ addr_cache = <<>>
    /\ resolver_last = [op |-> "init"]

NextResolver ==
    \/ \E record \in AgentDeploymentRecord : register_deployment(record)
    \/ \E agent_id \in {"a1", "a2"}, load \in LoadReports : update_load(agent_id, load)
    \/ \E zone \in Zones, url \in {SelfNS, OtherNS} : register_zone_referral(zone, url)
    \/ \E req \in AdaptiveResolveRequest, discover_response \in DiscoverResponses,
          facts_fetch \in FactsFetches :
            adaptive_resolve(req, discover_response, facts_fetch[1], facts_fetch[2])

\* ------------------------------------------------------------------------
\* resolver/main.py: POST /negotiate (SpecNegotiate)
\* ------------------------------------------------------------------------
\* `deployment.current_load < 0.8`, in hundredths
AcceptLoad == 80

\* max_latency_ms when the proposal names none, and the floor of a counter
DefaultLatency == 1000

CounterLatency == 2000

\* the JSON values max_latency_ms can carry in dict[str, Any]: a number, null
Latencies == {[num |-> CounterLatency - 1500], [num |-> CounterLatency + 1000], None}

\* proposed_qos when given: an object without max_latency_ms, or one with it
ProposedQoS ==
    {<<>>} \cup {<< <<"max_latency_ms", v>> >> : v \in Latencies}

\* the bodies of POST /negotiate (requester_context is not read); a
\* proposed_qos that is None is left out of the record
NegotiateRequest ==
    [agent_id : {"a1", "a2"}]
    \cup [agent_id : {"a1", "a2"}, proposed_qos : ProposedQoS]

\* (req.proposed_qos or {}).get("max_latency_ms", 1000)
ProposedLatency(req) ==
    DictGetOr(IF "proposed_qos" \in DOMAIN req THEN req.proposed_qos ELSE <<>>,
              "max_latency_ms", [num |-> DefaultLatency])

\* negotiate_comms: the target is accepted on its load
NegotiationAccepted(deployment) ==
    deployment # None /\ deployment.current_load < AcceptLoad

\* negotiate_comms: the answer; max(None, 2000) raises TypeError and the
\* request ends in a 500
NegotiateResponse(req, deployment) ==
    LET comms_spec == [protocol |-> "https", encryption |-> "TLS-1.3",
                       auth_method |-> "jwt",
                       max_latency_ms |-> ProposedLatency(req),
                       session_duration_s |-> 3600]
    IN  IF NegotiationAccepted(deployment)
        THEN [status |-> "accepted", comms_spec |-> comms_spec, agent_id |-> req.agent_id]
        ELSE IF ProposedLatency(req) = None THEN [status |-> "error", code |-> 500]
        ELSE [status |-> "counter",
              comms_spec |-> [comms_spec EXCEPT !.max_latency_ms =
                                 [num |-> Max(ProposedLatency(req).num, CounterLatency)]],
              agent_id |-> req.agent_id]

\* a negotiation that books the session it grants on the target's load
negotiate_comms_booking(req) ==
    LET deployment == DictGet(deployment_records, req.agent_id)
    IN  /\ resolver_last' = [op |-> "negotiate", request |-> req,
                             response |-> NegotiateResponse(req, deployment)]
        /\ deployment_records' =
               IF NegotiationAccepted(deployment)
               THEN DictSet(deployment_records, req.agent_id,
                            [deployment EXCEPT !.current_load = @ + 1])
               ELSE deployment_records
        /\ UNCHANGED <<now, storeVars, indexVars, zone_referrals, addr_cache>>

\* POST /negotiate
negotiate_comms(req) ==
    /\ resolver_last' = [op |-> "negotiate", request |-> req,
                         response |-> NegotiateResponse(req,
                                          DictGet(deployment_records, req.agent_id))]
    /\ UNCHANGED <<now, storeVars, indexVars, deployment_records, zone_referrals, addr_cache>>

\* the loads reported around the threshold
NegotiateLoadReports == {-5, AcceptLoad - 1, AcceptLoad, HighLoad, FullLoad, FullLoad + 20}

\* the resolves run next to the negotiations: one name, an empty context
NegotiateResolveRequest == [agent_name : {<<"s", "e">>}, context : {<<>>}]

NextNegotiate ==
    \/ \E record \in AgentDeploymentRecord : register_deployment(record)
    \/ \E zone \in Zones : register_zone_referral(zone, OtherNS)
    \/ \E req \in NegotiateResolveRequest, discover_response \in DiscoverResponses,
          facts_fetch \in FactsFetches :
            adaptive_resolve(req, discover_response, facts_fetch[1], facts_fetch[2])
    \/ \E agent_id \in {"a1", "a2"}, load \in NegotiateLoadReports :
           update_load(agent_id, load)
    \/ \E req \in NegotiateRequest : negotiate_comms(req)

\* ------------------------------------------------------------------------
\* The adaptive resolver in front of the registry store (SpecResolverCache)
\* ------------------------------------------------------------------------
\* the characters of the identifiers and URL parts the records carry
TextOf(s) ==
    CASE s = "a1" -> <<"a", "1">>
      [] s = "a2" -> <<"a", "2">>
      [] s = "h1" -> <<"h", "1">>
      [] s = "h2" -> <<"h", "2">>
      [] s = FactsPath -> <<"/", ".", "w", "e", "l", "l", "-", "k", "n", "o", "w", "n",
                            "/", "a", "g", "e", "n", "t", "-", "f", "a", "c", "t", "s">>

\* store.py NandaIndexStore.discover with only `query` given
discover(es, query, t) ==
    LET Matches(addr) ==
            \/ query = <<>>
            \/ Contains(Lower(query), Lower(TextOf(addr.agent_id)))
            \/ Contains(Lower(query), Lower(addr.agent_name))
            \/ Contains(Lower(query), Lower(TextOf(addr.primary_facts_url[1])
                                             \o TextOf(addr.primary_facts_url[2])))
        live == SelectSeq(DictValues(es), LAMBDA entry : ~(entry.expires_at < t))
        addrs == [i \in DOMAIN live |-> live[i].addr]
    IN  SelectSeq(addrs, Matches)

\* _fetch_addr_from_index: the query it posts to /discover
DiscoverQuery(agent_name) ==
    IF Contains(<<":">>, agent_name)
    THEN LET parts == SplitOn(agent_name, ":") IN parts[Len(parts)]
    ELSE agent_name

\* the pointers agents register with the store the resolver queries
CacheAddrs == {[AddrOf("a1") EXCEPT !.ttl = ttl] : ttl \in TTLs}

CacheResolveRequest == [agent_name : {<<"s", "e">>, <<"x">>}, context : {<<>>}]

\* POST /resolve against the running registry: /discover answers from the
\* store, or the call fails
ResolveViaRegistry(req, reachable, agent_facts, fetch) ==
    adaptive_resolve(req,
                     IF reachable
                     THEN [results |-> discover(entries, DiscoverQuery(req.agent_name), now)]
                     ELSE [raised |-> TRUE],
                     agent_facts, fetch)

NextResolverCache ==
    \/ \E addr \in CacheAddrs : StoreRegister(addr)
    \/ StoreRemove("a1")
    \/ StoreTick
    \/ \E req \in CacheResolveRequest, reachable \in BOOLEAN,
          facts_fetch \in {ff \in FactsFetches : ff[2] # "ok"} :
            ResolveViaRegistry(req, reachable, facts_fetch[1], facts_fetch[2])

\* ------------------------------------------------------------------------
\* registry/main.py: the resolution endpoints that call out (SpecRegistry)
\* ------------------------------------------------------------------------
\* GET /resolve/{agent_id}/facts; agent_facts is the document the agent hosts
\* and fetch the way the GET of it ends
resolve_and_fetch_facts(agent_id, prefer_private, agent_facts, fetch) ==
    LET addr == resolve_by_id(entries, agent_id, now)
        response ==
            IF addr = None THEN [status |-> 404]
            ELSE IF fetch # "ok" THEN [status |-> 502]
            ELSE [status |-> 200,
                  resolution_path |-> IF prefer_private THEN "private" ELSE "primary",
                  agent_addr |-> addr, agent_facts |-> agent_facts]
    IN  /\ store_last' = [op |-> "resolve_facts", arg |-> agent_id, result |-> response,
                          count_before |-> count(entries), had_before |-> FALSE]
        /\ UNCHANGED <<now, entries, name_index, reg_input, indexVars, resolverVars>>

\* f"http://localhost:{REGISTRY_PORT}", the registry's own address
RegistryNS == "http://localhost:registry"

\* the bodies of POST /resolve/adaptive
ContextResolveRequest ==
    [agent_name : {<<"s", "e">>, <<"s", "e", "u">>, <<"x">>}, context : {<<>>}]

\* POST /resolve/adaptive; delegation is the way the POST to the agent's
\* adaptive resolver ends, should the handler get to it
resolve_with_context(req, delegation) ==
    LET by_name == resolve_by_name(entries, name_index, req.agent_name, now)
        results == discover(entries, DiscoverQuery(req.agent_name), now)
        addr == IF by_name # None THEN by_name
                ELSE IF results # <<>> THEN results[1] ELSE None
        response ==
            IF addr = None THEN [status |-> 404]
            ELSE IF Truthy(addr.adaptive_resolver_url) /\ delegation = "ok"
            THEN [status |-> 200, resolution_path |-> "adaptive",
                  resolver_url |-> addr.adaptive_resolver_url]
            ELSE IF "authoritative_ns" \in DOMAIN addr /\ addr.authoritative_ns # RegistryNS
            THEN [status |-> 200, resolution_path |-> "referral", agent_addr |-> addr,
                  referral_to |-> addr.authoritative_ns, zone |-> addr.zone]
            ELSE [status |-> 200, resolution_path |-> "direct", agent_addr |-> addr,
                  context_received |-> req.context]
    IN  /\ store_last' = [op |-> "resolve_adaptive", arg |-> req.agent_name,
                          result |-> response,
                          count_before |-> count(entries), had_before |-> FALSE]
        /\ UNCHANGED <<now, entries, name_index, reg_input, indexVars, resolverVars>>

NextRegistry ==
    \/ \E addr \in ResolverAddrs : StoreRegister(addr)
    \/ \E agent_id \in Ids : StoreRemove(agent_id)
    \/ StoreTick
    \/ \E agent_id \in Ids, prefer_private \in BOOLEAN, facts_fetch \in FactsFetches :
          resolve_and_fetch_facts(agent_id, prefer_private, facts_fetch[1], facts_fetch[2])
    \/ \E req \in ContextResolveRequest, delegation \in FetchOutcomes :
          resolve_with_context(req, delegation)

\* ------------------------------------------------------------------------
\* registry/main.py POST /register with its request validation
\* (SpecRegisterInput)
\* ------------------------------------------------------------------------
\* the fields AgentAddr declares with Field(...): required, any str accepted
RequiredFields == {"agent_id", "agent_name", "primary_facts_url"}

\* JSON bodies posted to /register: each required field present with a value,
\* present and empty, or absent
RegisterBodies ==
    LET full == [agent_id : {"a1", ""}, agent_name : {"n1", ""},
                 primary_facts_url : {"u1", ""}, ttl : {1}]
    IN  full \cup {[f \in DOMAIN body \ {missing} |-> body[f]] :
                      body \in {b \in full : \A f \in RequiredFields : b[f] # ""},
                      missing \in RequiredFields}

\* AgentAddr(**body): the optional fields take their defaults
WithDefaults(body) == body @@ [signature |-> NoSignature, registered_at |-> None]

\* POST /register: FastAPI answers 422 when AgentAddr(**body) does not
\* validate, and the handler runs otherwise
PostRegister(body) ==
    IF RequiredFields \subseteq DOMAIN body
    THEN StoreRegister(WithDefaults(body))
    ELSE /\ store_last' = [op |-> "register_rejected", arg |-> body, status |-> 422,
                           result |-> None, count_before |-> count(entries),
                           had_before |-> FALSE]
         /\ UNCHANGED <<now, entries, name_index, reg_input, indexVars, resolverVars>>

NextRegisterInput ==
    \/ \E body \in RegisterBodies : PostRegister(body)
    \/ \E agent_id \in {"a1", ""} : StoreRemove(agent_id)
    \/ \E agent_id \in {"a1", ""} : StoreResolveById(agent_id)
    \/ StoreTick

\* ------------------------------------------------------------------------
\* shared/nanda_crypto.py: sign_document / verify_signature with an explicit
\* key, over payloads that are Python dicts (SpecCrypto)
\* ------------------------------------------------------------------------
\* hashlib.blake2b accepts keys of at most 64 bytes
Blake2bMaxKey == 64

\* _REGISTRY_SECRET: NANDA_SIGNING_KEY or secrets.token_hex(32)
RegistrySecret == [text |-> "secret", len |-> Blake2bMaxKey]

\* the signing_key arguments offered: None, "", two short keys, and one of 65
\* bytes
SigningKeys ==
    {None, [text |-> "", len |-> 0], [text |-> "k1", len |-> 2],
     [text |-> "k2", len |-> 2], [text |-> "long", len |-> Blake2bMaxKey + 1]}

\* the values of a payload field: an int, a str, and an object that json.dumps
\* cannot serialise itself (a date)
FieldValues == {[int |-> 1], [str |-> "d1"], [date |-> "d1"]}

\* payloads: dicts over the fields "a" and "b", in either insertion order
Payloads ==
    {<<>>}
    \cup {<<<<k, v>>>> : k \in {"a", "b"}, v \in FieldValues}
    \cup {<<<<ks[1], v1>>, <<ks[2], v2>>>> :
             ks \in {<<"a", "b">>, <<"b", "a">>},
             v1 \in FieldValues, v2 \in FieldValues}

\* json.dumps(..., default=str) of one value: what it cannot serialise is
\* replaced by its str()
JsonValue(v) == IF "date" \in DOMAIN v THEN [str |-> v.date] ELSE v

\* _canonical: json.dumps(obj, sort_keys=True, ...), the same text for every
\* insertion order
_canonical(obj) == {<<obj[i][1], JsonValue(obj[i][2])>> : i \in DOMAIN obj}

\* sign_document(payload, signing_key)
sign_document_key(payload, signing_key) ==
    LET key == IF signing_key = None \/ signing_key.len = 0
               THEN RegistrySecret ELSE signing_key
    IN  IF key.len > Blake2bMaxKey THEN [raised |-> "ValueError"]
        ELSE [blake2b |-> _canonical(payload), key |-> key.text]

\* verify_signature(payload, signature, signing_key)
verify_signature(payload, signature, signing_key) ==
    LET expected == sign_document_key(payload, signing_key)
    IN  IF "raised" \in DOMAIN expected THEN expected
        ELSE [valid |-> expected = signature]

\* a call of sign_document
Sign(payload, signing_key) ==
    /\ store_last' = [op |-> "sign", payload |-> payload, signing_key |-> signing_key,
                      result |-> sign_document_key(payload, signing_key)]
    /\ UNCHANGED <<now, entries, name_index, reg_input, indexVars, resolverVars>>

\* a call of verify_signature on the signature the last sign_document returned
Verify(payload, signing_key) ==
    /\ store_last.op = "sign"
    /\ "raised" \notin DOMAIN store_last.result
    /\ store_last' = [op |-> "verify", signed |-> store_last.payload,
                      signed_key |-> store_last.signing_key,
                      payload |-> payload, signing_key |-> signing_key,
                      result |-> verify_signature(payload, store_last.result, signing_key)]
    /\ UNCHANGED <<now, entries, name_index, reg_input, indexVars, resolverVars>>

NextCrypto ==
    \/ \E payload \in Payloads, signing_key \in SigningKeys : Sign(payload, signing_key)
    \/ \E payload \in Payloads, signing_key \in SigningKeys : Verify(payload, signing_key)

\* every service freshly started
Started == now = 0 /\ StoreInit /\ IndexInit /\ ResolverInit

\* USE_EMBEDDINGS is fixed at import by the environment of the lean index
\* (OPENAI_API_KEY); the other services do not read it
Init == Started /\ USE_EMBEDDINGS = FALSE /\ mongo_col = None

InitIndex == Started /\ USE_EMBEDDINGS \in BOOLEAN /\ mongo_col = None

\* the lean index started with or without a durable store; _lifespan has
\* emptied the collection (_clear_mongo) when there is one
InitDurable ==
    Started /\ USE_EMBEDDINGS = FALSE /\ mongo_col \in {None, [docs |-> <<>>]}

SpecStore == Init /\ [][NextStore]_vars

SpecIndex == InitIndex /\ [][NextIndex]_vars

SpecIndexConc == InitIndex /\ [][NextIndexConc]_vars

SpecDurable == InitDurable /\ [][NextDurable]_vars

SpecMatcher == InitIndex /\ [][NextMatcher]_vars
SpecRegistry == Init /\ [][NextRegistry]_vars
SpecCrypto == Init /\ [][NextCrypto]_vars
SpecRegisterInput == Init /\ [][NextRegisterInput]_vars
SpecResolver == Init /\ [][NextResolver]_vars
SpecResolverCache == Init /\ [][NextResolverCache]_vars
SpecNegotiate == Init /\ [][NextNegotiate]_vars

\* ------------------------------------------------------------------------
\* Properties of the registry store (SpecStore)
\* ------------------------------------------------------------------------
\* the spec's liveness rule: now < registered_at + ttl of the latest registration
StoreLive(agent_id) ==
    /\ DictHas(entries, agent_id)
    /\ now < DictGet(entries, agent_id).registered_at
             + DictGet(entries, agent_id).addr.ttl

\* a record without its server-stamped fields
Unstamp(addr) ==
    [addr EXCEPT !.signature = NoSignature, !.registered_at = None]

\* C1: resolve_by_id(id) and resolve_by_name(name) return the record exactly
\* when now < registered_at + ttl of its latest registration and NotFound
\* otherwise, also at the instant now = registered_at + ttl (the name -> id
\* mapping itself is taken from the name index here; C5 is about it).
C1_LiveIffBeforeExpiry ==
    /\ store_last.op = "resolve_by_id" =>
          (store_last.result # None <=> StoreLive(store_last.arg))
    /\ store_last.op = "resolve_by_name" =>
          (store_last.result # None <=>
              \E agent_id \in Ids :
                  /\ DictGetOr(name_index, store_last.arg, NoStr) = agent_id
                  /\ StoreLive(agent_id))

\* C2: at most one record per agent_id; a register of an id already present
\* replaces the whole record by the new payload (stamped) and leaves the
\* record count unchanged, a register of a new id adds one record.
C2_UpsertReplaces ==
    /\ \A i, j \in DOMAIN entries : entries[i][1] = entries[j][1] => i = j
    /\ store_last.op = "register" =>
          /\ Unstamp(DictGet(entries, store_last.arg).addr) = reg_input[store_last.arg]
          /\ DictGet(entries, store_last.arg).addr = store_last.result
          /\ count(entries) = store_last.count_before
                              + (IF store_last.had_before THEN 0 ELSE 1)

\* C2 witness: an id that was present has just been registered again and is
\* stored once, next to another agent's record
C2_Witness ==
    /\ store_last.op = "register"
    /\ store_last.had_before
    /\ count(entries) = 2

\* C3: register(R), then (before expiry, no operation on that agent in
\* between) resolve-by-id(R.agent_id) and resolve-by-name(R.agent_name) both
\* return R up to registered_at and signature.
C3_RegisterResolveRoundTrip ==
    /\ store_last.op = "resolve_by_id" =>
          (reg_input[store_last.arg] # None /\ StoreLive(store_last.arg)
              => /\ store_last.result # None
                 /\ Unstamp(store_last.result) = reg_input[store_last.arg])
    /\ store_last.op = "resolve_by_name" =>
          \A agent_id \in Ids :
              (/\ reg_input[agent_id] # None
               /\ reg_input[agent_id].agent_name = store_last.arg
               /\ StoreLive(agent_id))
              => /\ store_last.result # None
                 /\ Unstamp(store_last.result) = reg_input[agent_id]

\* C5: resolve_by_name(n) returns only a record whose agent_name equals n, and
\* a name that no stored record carries resolves to NotFound.
C5_ResolveByNameReturnsThatName ==
    store_last.op = "resolve_by_name" =>
        /\ store_last.result # None => store_last.result.agent_name = store_last.arg
        /\ (\A i \in DOMAIN entries : entries[i][2].addr.agent_name # store_last.arg)
              => store_last.result = None

\* ------------------------------------------------------------------------
\* Properties of the lean index
\* ------------------------------------------------------------------------
\* the stored record of an agent has reached registered_at + ttl
IndexExpired(agent_id) ==
    /\ DictHas(registry, agent_id)
    /\ now >= FromIsoFormat(DictGet(registry, agent_id).registered_at)
              + DictGet(registry, agent_id).ttl

\* C4: once now >= registered_at + ttl an agent behaves as absent on every
\* path of the index: lookup, list, search and the tiers of resolve never
\* return it.
C4_ExpiredBehavesAbsent ==
    index_last.op \in {"lookup", "list", "search", "resolve"} =>
        \A i \in DOMAIN index_last.result :
            ~IndexExpired(index_last.result[i].agent_id)

\* the vector a register of the stored record stores for one of its skills
StoredRecordEmbedding(agent_id, skill_id) ==
    EmbeddingOf(TextToEmbed(skill_id,
        DictGet(SkillDescriptions(DictGet(registry, agent_id)), skill_id)))

\* C6: concurrent register and remove requests on one agent_id leave the
\* state of some one-at-a-time order: the cached embedding of a skill that
\* the registration owning the stored record has refreshed is the embedding
\* of that record's description, never that of another registration.
C6_RegistrationsSerialize ==
    \A agent_id \in IndexIds :
        DictHas(registry, agent_id) =>
            \A skill_id \in refreshed[agent_id] :
                DictGet(embeddings, EmbeddingKey(agent_id, skill_id))
                    = StoredRecordEmbedding(agent_id, skill_id)

\* a register of agent_id is suspended before refreshing the embedding of
\* skill_id, its record is the stored one and the cached vector is another
RefreshPending(agent_id, skill_id) ==
    \E h \in HandlerIds :
        /\ handlers[h].op = "register"
        /\ handlers[h].body.agent_id = agent_id
        /\ reg_writer[agent_id] = h
        /\ \E k \in handlers[h].k .. Len(handlers[h].body.skill_descriptions) :
               handlers[h].body.skill_descriptions[k][1] = skill_id
        /\ DictHas(embeddings, EmbeddingKey(agent_id, skill_id))
        /\ DictGet(embeddings, EmbeddingKey(agent_id, skill_id))
               # StoredRecordEmbedding(agent_id, skill_id)

\* C7: a read running beside a registration sees the whole prior state or
\* the whole new one: a resolve never scores the new record of an agent
\* against an embedding that the registration has still to refresh.
C7_ReadsSeeWholeRegistration ==
    index_last.op = "resolve" =>
        \A i \in DOMAIN index_last.result :
            index_last.result[i].match_reason = "semantic" =>
                ~RefreshPending(index_last.result[i].agent_id,
                                index_last.result[i].matched_skill)

\* ------------------------------------------------------------------------
\* Properties of the adaptive resolver
\* ------------------------------------------------------------------------
\* the last request was a resolve whose pointer record was found
Resolved == resolver_last.op = "resolve" /\ resolver_last.addr # None

\* the context of the last resolve leaves null a field the target's document
\* lists in context_requirements
OmitsRequiredField ==
    \E i \in DOMAIN resolver_last.agent_facts.context_requirements :
        resolver_last.agent_facts.context_requirements[i]
            \notin DOMAIN resolver_last.request.context

\* C8: a resolve whose context omits a field the target requires always
\* yields a NegotiationInvitation, never a TailoredResponse.
C8_OmittedFieldAlwaysNegotiates ==
    (Resolved /\ OmitsRequiredField) =>
        resolver_last.response.type = "negotiation_invitation"

\* C8 as amended: when no referral applies and the capability document was
\* fetched with status 200, a resolve whose context omits a field listed in
\* its context_requirements yields a NegotiationInvitation that lists the
\* field in required_context; when the fetch fails the request is decided as
\* if nothing were required and never names a missing field.
C8_FetchedRequirementNegotiates ==
    (Resolved /\ OmitsRequiredField) =>
        /\ resolver_last.fetch = "ok" =>
              /\ resolver_last.response.type = "negotiation_invitation"
              /\ \A i \in DOMAIN resolver_last.agent_facts.context_requirements :
                     LET field == resolver_last.agent_facts.context_requirements[i]
                     IN  field \notin DOMAIN resolver_last.request.context
                             <=> InList(field, resolver_last.response.required_context)
        /\ (resolver_last.fetch \in {"unavailable", "raised"}
               /\ resolver_last.response.type = "negotiation_invitation") =>
              resolver_last.response.required_context = <<>>

C8_Witness ==
    /\ Resolved /\ OmitsRequiredField
    /\ resolver_last.fetch = "ok"
    /\ resolver_last.response.type = "negotiation_invitation"
    /\ "security_level" \in DOMAIN resolver_last.request.context
    /\ resolver_last.response.required_context = <<"geo_location">>

\* the deployment record of the agent the last resolve was about
LastDeployment == DictGet(deployment_records, resolver_last.addr.agent_id)

\* C9: once the pointer record is resolved and no referral applies, the
\* outcome is a NegotiationInvitation iff missing_context is non-empty, the
\* requester's security_level is "zero-trust" or current_load > 0.9;
\* otherwise (a load of exactly 0.9, no deployment record) it is a
\* TailoredResponse with negotiation_required = false.
C9_NegotiationIffTrigger ==
    (Resolved /\ resolver_last.response.type # "referral") =>
        LET ctx == resolver_last.request.context
            missing == resolver_last.fetch = "ok" /\ OmitsRequiredField
            zero_trust == "security_level" \in DOMAIN ctx
                          /\ ctx.security_level = "zero-trust"
            high_load == LastDeployment # None /\ LastDeployment.current_load > HighLoad
        IN  IF missing \/ zero_trust \/ high_load
            THEN resolver_last.response.type = "negotiation_invitation"
            ELSE /\ resolver_last.response.type = "tailored_response"
                 /\ resolver_last.response.negotiation_required = FALSE

\* C10: a zone mapped to an authoritative resolver other than this one gives
\* a Referral whatever the context and the load are; a zone mapped to no
\* authority, or to this resolver itself, never gives one.
C10_ReferralIffOtherAuthority ==
    Resolved =>
        LET zone == resolver_last.addr.zone
        IN  resolver_last.response.type = "referral"
                <=> /\ Truthy(zone)
                    /\ DictHas(zone_referrals, zone)
                    /\ DictGet(zone_referrals, zone) # SelfNS

\* C11: every adaptive resolve ends in exactly one of TailoredResponse,
\* NegotiationInvitation, Referral or NotFound, whatever the index query and
\* the capability-document fetch do.
C11_EndsInOneOutcome ==
    resolver_last.op = "resolve" =>
        \/ resolver_last.response.type
               \in {"tailored_response", "negotiation_invitation", "referral"}
        \/ /\ resolver_last.response.type = "error"
           /\ resolver_last.response.status = 404

\* C12: the resolver's pointer cache honours the registry: once the record has
\* passed its TTL or was removed, no adaptive resolve answers with a
\* TailoredResponse, NegotiationInvitation or Referral; it answers NotFound as
\* a direct lookup in the registry would.
C12_CacheHonoursRegistry ==
    [][(/\ UNCHANGED <<now, storeVars>>
        /\ resolver_last'.op = "resolve"
        /\ resolver_last'.response.type
               \in {"tailored_response", "negotiation_invitation", "referral"})
           => resolve_by_id(entries, resolver_last'.addr.agent_id, now) # None]_vars

\* ------------------------------------------------------------------------
\* Properties of the matcher (SpecMatcher)
\* ------------------------------------------------------------------------
\* some registered agent lists skill_hint verbatim
ExactTierMatches(body) ==
    /\ body.skill_hint # <<>>
    /\ \E i \in DOMAIN registry : InList(body.skill_hint, registry[i][2].skills)

\* C13: the tiers run in the order exact, semantic, substring and stop at the
\* first that yields a candidate: a response holds candidates of one
\* match_reason only, all of them "exact" once the exact tier matched (also
\* when min_score then drops them), so an exact match is never outranked by a
\* semantic or substring one.
C13_FirstMatchingTierOnly ==
    index_last.op = "resolve" =>
        LET result == index_last.result
        IN  /\ \A i, j \in DOMAIN result : result[i].match_reason = result[j].match_reason
            /\ ExactTierMatches(index_last.arg) =>
                   \A i \in DOMAIN result : result[i].match_reason = "exact"
            /\ \A i, j \in DOMAIN result :
                   (result[i].match_reason = "exact" /\ result[j].match_reason # "exact")
                       => i < j

\* the exact tier matched, min_score dropped all its candidates, and the
\* substring tier would have had one
C13_Witness ==
    /\ index_last.op = "resolve"
    /\ ExactTierMatches(index_last.arg)
    /\ index_last.result = <<>>
    /\ SubstringCandidates(registry, index_last.arg.query) # <<>>

\* C14: no returned candidate has a combined_score below the requested
\* min_score, where combined_score = 0.6 * relevance_score + 0.4 * context_score.
C14_NoCandidateBelowMinScore ==
    index_last.op = "resolve" =>
        \A i \in DOMAIN index_last.result :
            LET r == index_last.result[i]
            IN  /\ r.combined_score >= index_last.arg.min_score
                /\ 10 * r.combined_score = 6 * r.relevance_score + 4 * r.context_score

\* a strict min_score kept one candidate and dropped another of the same tier
C14_Witness ==
    /\ index_last.op = "resolve"
    /\ index_last.arg.min_score = StrictMinScore
    /\ index_last.result # <<>>
    /\ Len(index_last.result) < Len(FastPath(registry, index_last.arg))

\* the registered agents that list skill_hint verbatim
HoldersOf(skill_hint) ==
    {i \in DOMAIN registry : InList(skill_hint, registry[i][2].skills)}

Tokens(query) ==
    {w \in {SplitWords(Lower(query))[k] : k \in DOMAIN SplitWords(Lower(query))} :
        Len(w) > 2}

\* the tokens of the query found in the id or the description of skill j
TokensInSkill(agent_dict, j, query) ==
    {w \in Tokens(query) :
        \/ Contains(w, Lower(agent_dict.skills[j]))
        \/ Contains(w, Lower(DictGetOr(SkillDescriptions(agent_dict),
                                        agent_dict.skills[j], <<>>)))}

\* the live agents one of whose skills holds a token of the query
TokenHolders(query) ==
    {i \in DOMAIN registry :
        /\ ~IndexExpired(registry[i][1])
        /\ \E j \in DOMAIN registry[i][2].skills :
               TokensInSkill(registry[i][2], j, query) # {}}

\* the case of C16 and C17: no embedding collaborator, no exact match, the
\* default min_score
SubstringCase ==
    /\ ~USE_EMBEDDINGS
    /\ index_last.op = "resolve"
    /\ index_last.arg.min_score = DefaultMinScore
    /\ ~ExactTierMatches(index_last.arg)

\* C16: in that case, a query with a token occurring in some live agent's
\* skill id or description gets a non-empty result, every candidate of it
\* with match_reason "substring".
C16_TokenOverlapYieldsResult ==
    (SubstringCase /\ TokenHolders(index_last.arg.query) # {})
        => /\ index_last.status = 200
           /\ index_last.result # <<>>
           /\ \A i \in DOMAIN index_last.result :
                  index_last.result[i].match_reason = "substring"

\* no token of the query occurs in the skill text of any registered agent
NoTokenOverlap(query) ==
    \A i \in DOMAIN registry : \A j \in DOMAIN registry[i][2].skills :
        TokensInSkill(registry[i][2], j, query) = {}

\* C17: with no embedding collaborator, a request whose query shares no token
\* with any agent's skill text (a query without a word longer than 2
\* characters, an empty query and an empty registry included), and which no
\* agent matches exactly on skill_hint, returns an empty list and never an
\* error.
C17_NoOverlapYieldsEmpty ==
    (/\ ~USE_EMBEDDINGS
     /\ index_last.op = "resolve"
     /\ ~ExactTierMatches(index_last.arg)
     /\ NoTokenOverlap(index_last.arg.query))
        => /\ index_last.status = 200
           /\ index_last.result = <<>>

\* C18: a failure of the embedding backend is never surfaced: a registration
\* stores the record and succeeds whether or not its embedding calls fail, and
\* a match request whose embedding call failed answers as if there were no
\* semantic candidates, with the list of the substring fallback.
C18_EmbeddingFailureAbsorbed ==
    /\ index_last.op = "register" =>
           /\ index_last.status = 200
           /\ DictHas(registry, index_last.arg)
           /\ DictGet(registry, index_last.arg).registered_at = IsoFormat(now)
    /\ (/\ index_last.op = "resolve"
        /\ index_last.embedding = "failed"
        /\ ~ContextRaises(index_last.arg.context))
           => /\ index_last.status = 200
              /\ \A i \in DOMAIN index_last.result :
                     index_last.result[i].match_reason = "substring"
              /\ {index_last.result[i].agent_id : i \in DOMAIN index_last.result}
                     = {registry[h][1] : h \in
                          {h \in DOMAIN registry :
                              /\ Tokens(index_last.arg.query) # {}
                              /\ \E j \in DOMAIN registry[h][2].skills :
                                    TokensInSkill(registry[h][2], j, index_last.arg.query)
                                        = Tokens(index_last.arg.query)}}

\* the embedding call of a match request failed and the substring fallback
\* found the agent
C18_Witness ==
    /\ USE_EMBEDDINGS
    /\ index_last.op = "resolve"
    /\ index_last.embedding = "failed"
    /\ index_last.status = 200
    /\ index_last.result # <<>>

\* ------------------------------------------------------------------------
\* Properties of the registry's resolution endpoints (SpecRegistry)
\* ------------------------------------------------------------------------
\* C19: no request fails because an upstream collaborator (capability-document
\* host, delegated adaptive resolver) is unavailable: a resolution request of
\* the registry ends in a result or in not-found, an upstream failure being
\* absorbed with a fallback result.
C19_UpstreamFailureAbsorbed ==
    store_last.op \in {"resolve_facts", "resolve_adaptive"} =>
        store_last.result.status \in {200, 404}

\* ------------------------------------------------------------------------
\* Properties of the adaptive resolver when the document fetch fails
\* (SpecResolver)
\* ------------------------------------------------------------------------
\* C20: when the fetch of the target's capability document fails (exception,
\* timeout or a status other than 200), missing_context is empty, the failure
\* alone never brings a NegotiationInvitation, and without a zero-trust
\* request or a load above 0.9 the outcome is a TailoredResponse.
C20_FailedFetchMeansNoRequirements ==
    (Resolved /\ resolver_last.fetch \in {"unavailable", "raised"}) =>
        LET ctx == resolver_last.request.context
            response == resolver_last.response
            zero_trust == "security_level" \in DOMAIN ctx
                          /\ ctx.security_level = "zero-trust"
            high_load == LastDeployment # None /\ LastDeployment.current_load > HighLoad
        IN  /\ response.type = "negotiation_invitation" =>
                   /\ response.required_context = <<>>
                   /\ zero_trust \/ high_load
            /\ ~(zero_trust \/ high_load) => response.type = "tailored_response"

\* ------------------------------------------------------------------------
\* Properties of sign_document / verify_signature (SpecCrypto)
\* ------------------------------------------------------------------------
\* the fields of a payload and the value of one of them
FieldsOf(payload) == {payload[i][1] : i \in DOMAIN payload}
ValueOf(payload, k) == (CHOOSE i \in DOMAIN payload : payload[i][1] = k)

\* the same fields with the same values, in whatever order
SamePayload(p, q) ==
    /\ FieldsOf(p) = FieldsOf(q)
    /\ \A k \in FieldsOf(p) : p[ValueOf(p, k)][2] = q[ValueOf(q, k)][2]

\* the same fields, exactly one of them with another value
OneFieldChanged(p, q) ==
    /\ FieldsOf(p) = FieldsOf(q)
    /\ Cardinality({k \in FieldsOf(p) : p[ValueOf(p, k)][2] # q[ValueOf(q, k)][2]}) = 1

\* C21: for every payload and key, signing succeeds and verify(payload,
\* sign(payload, key), key) is true, whatever the order of the fields; after a
\* change of the value of one field, or of the key, the old signature no
\* longer verifies.
C21_SignVerifyRoundTrip ==
    /\ store_last.op = "sign" => "raised" \notin DOMAIN store_last.result
    /\ store_last.op = "verify" =>
           /\ (SamePayload(store_last.signed, store_last.payload)
               /\ store_last.signing_key = store_last.signed_key)
                  => store_last.result = [valid |-> TRUE]
           /\ (OneFieldChanged(store_last.signed, store_last.payload)
               /\ store_last.signing_key = store_last.signed_key)
                  => store_last.result = [valid |-> FALSE]
           /\ (SamePayload(store_last.signed, store_last.payload)
               /\ store_last.signing_key # store_last.signed_key)
                  => store_last.result = [valid |-> FALSE]

\* ------------------------------------------------------------------------
\* Further properties of the registry store (SpecStore)
\* ------------------------------------------------------------------------
\* C22: every stored record carries the server's signature over all its
\* other fields as stored, registered_at included: recomputing the signature of
\* the stored record without its signature field gives the stored signature,
\* and the signature a client sent is never the one stored.
C22_StoredSignatureVerifies ==
    \A i \in DOMAIN entries :
        LET addr == entries[i][2].addr
        IN  /\ addr.signature = sign_document(ExcludeSignature(addr))
            /\ addr.signature # NoSignature

\* C23: remove(id) makes that agent unresolvable by id and by its agent_name
\* and leaves every other record that was resolvable by its id, or by its
\* agent_name, resolvable the same way, also when two agent ids were
\* registered under one agent_name.
C23_RemoveLeavesOthersResolvable ==
    [][\A agent_id \in Ids :
          (store_last'.op = "remove" /\ store_last'.arg = agent_id /\ now' = now) =>
              /\ resolve_by_id(entries', agent_id, now) = None
              /\ \A other \in Ids \ {agent_id} :
                     LET addr == resolve_by_id(entries, other, now)
                     IN  addr # None =>
                            /\ resolve_by_id(entries', other, now) = addr
                            /\ resolve_by_name(entries, name_index, addr.agent_name, now)
                                   = addr
                                => resolve_by_name(entries', name_index',
                                                   addr.agent_name, now) = addr]_vars

\* C24: removing an agent id that is absent reports no error and leaves the
\* registry unchanged, at the store and at DELETE /agents/{id}.
C24_RemoveAbsentIsSilent ==
    [][(store_last'.op = "remove" /\ now' = now /\ ~DictHas(entries, store_last'.arg)) =>
          /\ store_last'.status = 200
          /\ entries' = entries
          /\ name_index' = name_index]_vars

\* C25: a registration whose agent_id, agent_name or facts URL is missing or
\* an empty string is rejected and leaves records and name index unchanged;
\* only registrations with all three non-empty are stored.
C25_MalformedRegistrationRejected ==
    [][/\ store_last'.op = "register" =>
              \A f \in RequiredFields : store_last'.result[f] # ""
       /\ store_last'.op = "register_rejected" =>
              (now' = now => (entries' = entries /\ name_index' = name_index))]_vars

\* C26: at every instant the four read paths agree on which records are live:
\* list_all and discover without filters return exactly the records
\* resolve_by_id returns, and a record resolve_by_id returns is also found
\* through resolve_by_name under its agent_name.
C26_ReadPathsAgree ==
    LET by_id == {resolve_by_id(entries, entries[i][1], now) : i \in DOMAIN entries}
                    \ {None}
        listed == list_all(entries, now)
    IN  /\ {listed[i] : i \in DOMAIN listed} = by_id
        /\ discover(entries, <<>>, now) = listed
        /\ \A addr \in by_id :
               resolve_by_name(entries, name_index, addr.agent_name, now) # None

\* ------------------------------------------------------------------------
\* Properties of the tailored response (SpecResolver)
\* ------------------------------------------------------------------------
\* the last resolve gave a TailoredResponse
Tailored == Resolved /\ resolver_last.response.type = "tailored_response"

\* the requester of the last resolve has both coordinates, given or looked up
CoordinatesResolved ==
    {"lat", "lon"} \subseteq DOMAIN RequesterLocation(resolver_last.request.context)

\* the resources at the smallest distance from the requester of the last
\* resolve, found by comparing every pair
Nearest ==
    LET resources == LastDeployment.resources
        loc == RequesterLocation(resolver_last.request.context)
    IN  {i \in DOMAIN resources :
            \A j \in DOMAIN resources :
                ResourceDistance(resources[i], loc) <= ResourceDistance(resources[j], loc)}

\* C27: with the requester's coordinates resolved, geo_nearest_resource of a
\* TailoredResponse is the first-listed of the resources at the smallest
\* great-circle distance, a resource without coordinates counting as a fixed
\* large distance; with the coordinates unresolved it is the first-listed
\* resource.
C27_GeoNearestResource ==
    (Tailored /\ LastDeployment # None /\ LastDeployment.resources # <<>>) =>
        LET resources == LastDeployment.resources
            first_nearest == CHOOSE i \in Nearest : \A j \in Nearest : i <= j
        IN  DictGet(resolver_last.response.context_used, "geo_nearest_resource")
                = IF CoordinatesResolved THEN resources[first_nearest].resource_id
                  ELSE resources[1].resource_id

C27_Witness ==
    /\ Tailored /\ LastDeployment # None
    /\ CoordinatesResolved
    /\ Cardinality(Nearest) = 2
    /\ 1 \notin Nearest
    /\ DictGet(resolver_last.response.context_used, "geo_nearest_resource") = "it"

\* the capability document the last resolve fetched with status 200, else None
FetchedDocument ==
    IF resolver_last.fetch = "ok" THEN resolver_last.agent_facts ELSE None

\* C28: the endpoint of a TailoredResponse is a member of the rotating pool
\* whenever the fetched capability document advertises a non-empty pool and
\* otherwise is the target's first static endpoint; the transport is "wss"
\* exactly when session_type is "streaming" and "https" otherwise.
C28_EndpointAndTransport ==
    Tailored =>
        LET ctx == resolver_last.request.context
            hosted == resolver_last.agent_facts.endpoints
            response == resolver_last.response
        IN  /\ IF FetchedDocument # None /\ FetchedDocument.endpoints.rotating # <<>>
               THEN \E i \in DOMAIN FetchedDocument.endpoints.rotating :
                        response.endpoint = <<FetchedDocument.endpoints.rotating[i]>>
               ELSE /\ hosted.static # <<>>
                    /\ response.endpoint = <<hosted.static[1]>>
            /\ response.transport \in {"wss", "https"}
            /\ response.transport = "wss"
                   <=> ("session_type" \in DOMAIN ctx /\ ctx.session_type = "streaming")

\* C29: every TailoredResponse has ttl = min(ttl of the pointer record, 300),
\* hence at most 300 and at most the record's ttl; every
\* NegotiationInvitation has ttl 60.
C29_TTLCaps ==
    /\ Tailored =>
           /\ resolver_last.response.ttl <= MaxTailoredTTL
           /\ resolver_last.response.ttl <= resolver_last.addr.ttl
           /\ resolver_last.response.ttl \in {MaxTailoredTTL, resolver_last.addr.ttl}
    /\ (Resolved /\ resolver_last.response.type = "negotiation_invitation") =>
           resolver_last.response.ttl = NegotiationTTL

C29_Witness ==
    /\ Tailored
    /\ resolver_last.addr.ttl > MaxTailoredTTL
    /\ resolver_last.response.ttl = MaxTailoredTTL

\* ------------------------------------------------------------------------
\* Properties of POST /negotiate (SpecNegotiate)
\* ------------------------------------------------------------------------
\* C30: a negotiate request is answered "accepted" with max_latency_ms equal
\* to the proposed value exactly when the target's current_load is below 0.8,
\* and otherwise "counter" with max_latency_ms at or above the proposed value.
C30_AcceptedIffBelowLoad ==
    resolver_last.op = "negotiate" =>
        LET req == resolver_last.request
            response == resolver_last.response
            deployment == DictGet(deployment_records, req.agent_id)
            proposed == ProposedLatency(req)
        IN  IF deployment # None /\ deployment.current_load < AcceptLoad
            THEN /\ response.status = "accepted"
                 /\ response.comms_spec.max_latency_ms = proposed
            ELSE /\ response.status = "counter"
                 /\ proposed # None =>
                        response.comms_spec.max_latency_ms.num >= proposed.num

\* ------------------------------------------------------------------------
\* Properties of the matcher's ranking (SpecMatcher)
\* ------------------------------------------------------------------------
\* the position of an agent in the registry
RegistryPosition(agent_id) == CHOOSE i \in DOMAIN registry : registry[i][1] = agent_id

\* C31: the candidates a resolve returns are ordered by combined_score,
\* highest first: of two adjacent candidates the earlier one's score is
\* greater than or equal to the later one's.
C31_RankedByCombinedScore ==
    index_last.op = "resolve" =>
        \A i \in 1..(Len(index_last.result) - 1) :
            index_last.result[i].combined_score >= index_last.result[i + 1].combined_score

C31_Witness ==
    /\ index_last.op = "resolve"
    /\ Len(index_last.result) = 2
    /\ index_last.result[1].combined_score > index_last.result[2].combined_score
    /\ DictHas(registry, index_last.result[1].agent_id)
    /\ DictHas(registry, index_last.result[2].agent_id)
    /\ RegistryPosition(index_last.result[1].agent_id)
           > RegistryPosition(index_last.result[2].agent_id)

\* ------------------------------------------------------------------------
\* Properties of the resolver's responses, continued (SpecResolver)
\* ------------------------------------------------------------------------
\* C32: every TailoredResponse is signed over all of its final fields but
\* the signature: the returned response without its signature field verifies
\* against its signature.
C32_TailoredSignatureVerifies ==
    Tailored =>
        resolver_last.response.signature
            = sign_document(ExcludeSignature(resolver_last.response))

\* ------------------------------------------------------------------------
\* Properties of the lean index with a durable store (SpecDurable)
\* ------------------------------------------------------------------------
\* C33: the lean index answers register, delete, lookup, list, search and
\* match requests the same whether the durable store is connected, absent or
\* failing on writes: every answer and the registry a request leaves are what
\* the in-memory registry alone gives, and a failed durable write never
\* changes or fails a request.
C33_DurableStoreUnobservable ==
    [][LET last == index_last'
       IN  /\ last.op = "register" =>
                 /\ last.status = 200
                 /\ DictHas(registry', last.arg)
                 /\ \A agent_id \in IndexIds \ {last.arg} :
                        DictGet(registry', agent_id) = DictGet(registry, agent_id)
           /\ last.op = "delete" =>
                 /\ last.status = IF DictHas(registry, last.arg) THEN 200 ELSE 404
                 /\ registry' = DictPop(registry, last.arg)
           /\ last.op = "lookup" =>
                 /\ registry' = registry
                 /\ last.status = IF DictHas(registry, last.arg) THEN 200 ELSE 404
                 /\ DictHas(registry, last.arg) =>
                        last.result = <<DictGet(registry, last.arg)>>
           /\ last.op = "list" =>
                 registry' = registry /\ last.result = DictValues(registry)
           /\ last.op = "search" =>
                 registry' = registry /\ last.result = search_agents(registry, last.arg)
           /\ last.op = "resolve" =>
                 /\ registry' = registry
                 /\ last.status = 200
                 /\ \A i \in DOMAIN last.result :
                        DictHas(registry, last.result[i].agent_id)]_vars

\* a lookup answered from the registry while the durable store, having
\* failed a write, holds no document of the agent
C33_Witness ==
    /\ mongo_col # None
    /\ index_last.op = "lookup" /\ index_last.status = 200
    /\ DictHas(registry, index_last.arg)
    /\ ~DictHas(mongo_col.docs, index_last.arg)

\* the last resolve gave a NegotiationInvitation
Invited == Resolved /\ resolver_last.response.type = "negotiation_invitation"

\* the fields the fetched capability document requires and the context of
\* the last resolve leaves null, in the order of the document
ActualMissing ==
    IF resolver_last.fetch = "ok"
    THEN SelectSeq(resolver_last.agent_facts.context_requirements,
                   LAMBDA field : field \notin DOMAIN resolver_last.request.context)
    ELSE <<>>

\* C34: the reason of a NegotiationInvitation names a trigger that holds, in
\* the priority missing context, zero-trust, high load: with fields missing
\* the reason lists them and required_context is exactly they; the zero-trust
\* reason appears only when nothing is missing; the load reason only when
\* nothing is missing, the request is not zero-trust and current_load > 0.9;
\* required_context is empty in the last two cases.
C34_ReasonNamesTrigger ==
    Invited =>
        LET ctx == resolver_last.request.context
            response == resolver_last.response
            zero_trust == "security_level" \in DOMAIN ctx
                          /\ ctx.security_level = "zero-trust"
        IN  /\ response.reason.text
                   \in {"Target requires context: {}",
                        "Zero-trust security requires mutual attestation",
                        "Agent at high load ({}), QoS negotiation required"}
            /\ ActualMissing # <<>> =>
                   /\ response.reason.text = "Target requires context: {}"
                   /\ response.reason.fields = ActualMissing
            /\ response.required_context = ActualMissing
            /\ response.reason.text = "Zero-trust security requires mutual attestation" =>
                   ActualMissing = <<>> /\ zero_trust
            /\ response.reason.text = "Agent at high load ({}), QoS negotiation required" =>
                   /\ ActualMissing = <<>> /\ ~zero_trust
                   /\ LastDeployment # None
                   /\ LastDeployment.current_load > HighLoad
                   /\ response.reason.load = LastDeployment.current_load

\* an invitation for a zero-trust request to an overloaded target
C34_Witness ==
    /\ Invited
    /\ resolver_last.response.reason.text = "Zero-trust security requires mutual attestation"
    /\ LastDeployment # None /\ LastDeployment.current_load > HighLoad
    /\ resolver_last.response.required_context = <<>>

\* ------------------------------------------------------------------------
\* Frame of the resolution requests (SpecNegotiate)
\* ------------------------------------------------------------------------
\* C35: adaptive resolve and negotiate never create, modify or delete a
\* DeploymentRecord or a zone referral; a resolve changes at most the pointer
\* cache, a negotiate changes no state at all, and a negotiate repeated with
\* the same inputs and the same load gives the same answer.
C35_ResolutionIsReadOnly ==
    [][/\ resolver_last'.op = "resolve" =>
              UNCHANGED <<deployment_records, zone_referrals, now, storeVars, indexVars>>
       /\ resolver_last'.op = "negotiate" =>
              UNCHANGED <<deployment_records, zone_referrals, addr_cache,
                          now, storeVars, indexVars>>
       /\ (/\ resolver_last.op = "negotiate"
           /\ resolver_last'.op = "negotiate"
           /\ resolver_last'.request = resolver_last.request) =>
              resolver_last'.response = resolver_last.response]_vars

\* a negotiation accepted while a deployment record, a zone referral and a
\* cached pointer are held
C35_Witness ==
    /\ resolver_last.op = "negotiate"
    /\ resolver_last.response.status = "accepted"
    /\ deployment_records # <<>>
    /\ zone_referrals # <<>>
    /\ addr_cache # <<>>

\* ------------------------------------------------------------------------
\* Re-registration in the registry store (SpecStore)
\* ------------------------------------------------------------------------
\* a record without the fields the server stamps
Unstamped(addr) == [f \in DOMAIN addr \ {"registered_at", "signature"} |-> addr[f]]

\* the entries without registered_at and the expiry it implies
UnstampedEntries(es) == [i \in DOMAIN es |-> <<es[i][1], Unstamped(es[i][2].addr)>>]

\* C36: re-registration is an idempotent upsert that refreshes liveness: a
\* registration at time t, whether or not the previous one had expired, makes
\* the record live by id and by name from t until t + ttl of the new
\* registration and not after it; registering again the payload an agent is
\* registered with leaves the records, their order, the name index and the
\* count as they were, apart from registered_at and the expiry.
C36_ReRegistrationRefreshes ==
    [][store_last'.op = "register" =>
          LET id == store_last'.arg
              addr == store_last'.result
          IN  /\ \A t \in now..(now + addr.ttl - 1) :
                     /\ resolve_by_id(entries', id, t) = addr
                     /\ resolve_by_name(entries', name_index', addr.agent_name, t) = addr
              /\ \A t \in (now + addr.ttl + 1)..(MaxTime + MaxTTL + 1) :
                     resolve_by_id(entries', id, t) = None
              /\ (/\ DictHas(entries, id)
                  /\ Unstamped(DictGet(entries, id).addr) = Unstamped(addr)
                  /\ DictGetOr(name_index, addr.agent_name, NoStr) = id) =>
                     /\ UnstampedEntries(entries') = UnstampedEntries(entries)
                     /\ name_index' = name_index
                     /\ count(entries') = count(entries)]_vars

\* an agent registered again after its previous registration had expired
C36_Witness ==
    /\ store_last.op = "register"
    /\ store_last.expired_before
    /\ resolve_by_id(entries, store_last.arg, now) = store_last.result
    /\ reg_input[store_last.arg] # None

\* ------------------------------------------------------------------------
\* The agent an adaptive resolve answers for (SpecResolver)
\* ------------------------------------------------------------------------
\* C37: an adaptive resolve for agent_name N that does not end in NotFound
\* concerns an agent whose registered agent_name is exactly N.
C37_AnswersForTheNamedAgent ==
    (Resolved /\ resolver_last.response.type
                    \in {"tailored_response", "negotiation_invitation", "referral"}) =>
        resolver_last.addr.agent_name = resolver_last.request.agent_name

\* ------------------------------------------------------------------------
\* The cached skill embeddings (SpecIndex)
\* ------------------------------------------------------------------------
\* C38: the cached embeddings correspond to the agent's current registration:
\* every semantic candidate names a matched_skill that is in the skills list
\* the agent is registered with now.
C38_SemanticMatchIsCurrent ==
    (index_last.op = "resolve" /\ index_last.status = 200) =>
        \A i \in DOMAIN index_last.result :
            index_last.result[i].match_reason = "semantic" =>
                /\ DictHas(registry, index_last.result[i].agent_id)
                /\ InList(index_last.result[i].matched_skill,
                          DictGet(registry, index_last.result[i].agent_id).skills)

\* ------------------------------------------------------------------------
\* The deployment records (SpecNegotiate)
\* ------------------------------------------------------------------------
\* C39: after any sequence of POST /deployments and load reports of any
\* value, every stored DeploymentRecord has 0 <= current_load <= 1, there is
\* at most one record per agent_id, and a load report for an agent that has
\* no deployment record creates none.
C39_LoadsStayInRange ==
    [][/\ \A i \in DOMAIN deployment_records' :
              /\ deployment_records'[i][2].current_load >= 0
              /\ deployment_records'[i][2].current_load <= FullLoad
              /\ deployment_records'[i][2].agent_id = deployment_records'[i][1]
              /\ \A j \in DOMAIN deployment_records' :
                     deployment_records'[j][1] = deployment_records'[i][1] => j = i
       /\ (resolver_last'.op = "update_load"
              /\ ~DictHas(deployment_records, resolver_last'.arg)) =>
              deployment_records' = deployment_records]_vars

\* a report above 1.0 for an agent with a record, stored as 1.0
C39_Witness ==
    /\ resolver_last.op = "update_load"
    /\ resolver_last.load > FullLoad
    /\ DictHas(deployment_records, resolver_last.arg)
    /\ DictGet(deployment_records, resolver_last.arg).current_load = FullLoad

\* ------------------------------------------------------------------------
\* The endpoint of a tailored response (SpecResolver)
\* ------------------------------------------------------------------------
\* C40: every TailoredResponse carries a non-empty endpoint, also when the
\* capability document was fetched but advertises neither rotating nor
\* static endpoints.
C40_EndpointNonEmpty ==
    Tailored => resolver_last.response.endpoint # <<>>

====
